---- MODULE Spec2Model ----
(***************************************************************************)
(* Portfolio investment tracker: the asset-identity normaliser             *)
(* (create_asset_key), the deduplication engine (remove_duplicates) and    *)
(* the per-issuer emission paths of src/extractors/portfolio_extractor.py. *)
(*                                                                         *)
(* Python strings are TLA+ strings; a character is a string of length 1.   *)
(* The amounts the extractors parse are counted in hundredths of a         *)
(* currency unit (1,000.50 is 100050).  A table cell is a text or None.     *)
(***************************************************************************)
EXTENDS Integers, Sequences, FiniteSets, TLC

(***************************************************************************)
(* Strings and the regular-expression fragments the code uses.             *)
(***************************************************************************)
Ch(s, i) == SubSeq(s, i, i)

Drop(s, n) == SubSeq(s, n + 1, Len(s))

LowerAlphabet == "abcdefghijklmnopqrstuvwxyz"

UpperAlphabet == "ABCDEFGHIJKLMNOPQRSTUVWXYZ"

DigitChars == {"0", "1", "2", "3", "4", "5", "6", "7", "8", "9"}

LowerChars == {Ch(LowerAlphabet, i) : i \in 1..26}

UpperChars == {Ch(UpperAlphabet, i) : i \in 1..26}

\* \w of the re module, on the characters the names are written in
WordChars == LowerChars \cup UpperChars \cup DigitChars \cup {"_"}

\* \s of the re module, on the characters the documents are written in
SpaceChars == {" ", "\n"}

UpperCh(c) ==
  IF c \in LowerChars
    THEN Ch(UpperAlphabet, CHOOSE i \in 1..26 : Ch(LowerAlphabet, i) = c)
    ELSE c

RECURSIVE str_upper(_)
\* str.upper()
str_upper(s) ==
  IF s = "" THEN "" ELSE UpperCh(Ch(s, 1)) \o str_upper(Drop(s, 1))

StartsWithAt(s, i, lit) ==
  /\ i + Len(lit) - 1 <= Len(s)
  /\ SubSeq(s, i, i + Len(lit) - 1) = lit

\* the Python test  sub in s
Contains(s, sub) == \E i \in 1..(Len(s) + 1) : StartsWithAt(s, i, sub)

RECURSIVE RunLen(_, _, _)
\* number of consecutive characters of s, from position i on, that are in set
RunLen(s, i, set) ==
  IF i <= Len(s) /\ Ch(s, i) \in set THEN 1 + RunLen(s, i + 1, set) ELSE 0

Min(a, b) == IF a <= b THEN a ELSE b

RECURSIVE str_replace(_, _, _)
\* str.replace(old, new) for a one-character old
str_replace(s, old, new) ==
  IF s = "" THEN ""
  ELSE (IF Ch(s, 1) = old THEN new ELSE Ch(s, 1)) \o str_replace(Drop(s, 1), old, new)

RECURSIVE str_lstrip(_)
str_lstrip(s) ==
  IF s # "" /\ Ch(s, 1) \in SpaceChars THEN str_lstrip(Drop(s, 1)) ELSE s

RECURSIVE str_rstrip(_)
str_rstrip(s) ==
  IF s # "" /\ Ch(s, Len(s)) \in SpaceChars
    THEN str_rstrip(SubSeq(s, 1, Len(s) - 1)) ELSE s

\* str.strip()
str_strip(s) == str_rstrip(str_lstrip(s))

\* length of the match of  \d{1,2}[-/]\w{3}[-/]\d{2,4}  at position i, 0 if none
DateMatchLen(s, i) ==
  LET d == Min(RunLen(s, i, DigitChars), 2)
      \* one digit then a separator, or two digits then a separator
      dd == IF d = 2 /\ i + 2 <= Len(s) /\ Ch(s, i + 2) \in {"-", "/"} THEN 2
            ELSE IF d >= 1 /\ i + 1 <= Len(s) /\ Ch(s, i + 1) \in {"-", "/"} THEN 1
            ELSE 0
      w == i + dd + 1
      y == Min(RunLen(s, w + 4, DigitChars), 4)
  IN IF /\ dd > 0
        /\ w + 3 <= Len(s)
        /\ \A k \in 0..2 : Ch(s, w + k) \in WordChars
        /\ Ch(s, w + 3) \in {"-", "/"}
        /\ y >= 2
       THEN dd + 5 + y
       ELSE 0

\* re.search(r'(\d{1,2}[-/]\w{3}[-/]\d{2,4})', s): group(1), or "" for no match
DateSearch(s) ==
  LET hits == {i \in 1..Len(s) : DateMatchLen(s, i) > 0}
  IN IF hits = {} THEN ""
     ELSE LET i == CHOOSE j \in hits : \A k \in hits : j <= k
          IN SubSeq(s, i, i + DateMatchLen(s, i) - 1)

\* length of the match of  word\s*\w+  at position i, 0 if none
WordTokenMatchLen(s, i, word) ==
  IF ~StartsWithAt(s, i, word) THEN 0
  ELSE LET ws == RunLen(s, i + Len(word), SpaceChars)
           w == RunLen(s, i + Len(word) + ws, WordChars)
       IN IF w >= 1 THEN Len(word) + ws + w ELSE 0

\* length of the match of  (SERIES\s*\w+|CLASS\s*\w+)  at position i, 0 if none
SeriesMatchLen(s, i) ==
  IF WordTokenMatchLen(s, i, "SERIES") > 0
    THEN WordTokenMatchLen(s, i, "SERIES")
    ELSE WordTokenMatchLen(s, i, "CLASS")

\* re.search(r'(SERIES\s*\w+|CLASS\s*\w+)', s): group(1), or "" for no match
SeriesSearch(s) ==
  LET hits == {i \in 1..Len(s) : SeriesMatchLen(s, i) > 0}
  IN IF hits = {} THEN ""
     ELSE LET i == CHOOSE j \in hits : \A k \in hits : j <= k
          IN SubSeq(s, i, i + SeriesMatchLen(s, i) - 1)

RECURSIVE re_sub_literals(_, _, _)
\* re.sub of a pattern that is an alternation of literal texts: alts[1]|alts[2]|...
re_sub_literals(s, alts, rep) ==
  IF s = "" THEN ""
  ELSE LET hit == {k \in 1..Len(alts) : StartsWithAt(s, 1, alts[k])}
       IN IF hit # {}
            THEN LET k == CHOOSE j \in hit : \A m \in hit : j <= m
                 IN rep \o re_sub_literals(Drop(s, Len(alts[k])), alts, rep)
            ELSE Ch(s, 1) \o re_sub_literals(Drop(s, 1), alts, rep)

\* length of the match of  open.*?close  at position 1 (close one character), 0 if none
LazySpanLen(s, open, close) ==
  IF ~StartsWithAt(s, 1, open) THEN 0
  ELSE LET ends == {j \in (Len(open) + 1)..Len(s) : Ch(s, j) = close}
       IN IF ends = {} THEN 0 ELSE CHOOSE j \in ends : \A k \in ends : j <= k

RECURSIVE re_sub_lazy_span(_, _, _, _)
\* re.sub of  open.*?close
re_sub_lazy_span(s, open, close, rep) ==
  IF s = "" THEN ""
  ELSE IF LazySpanLen(s, open, close) > 0
    THEN rep \o re_sub_lazy_span(Drop(s, LazySpanLen(s, open, close)), open, close, rep)
    ELSE Ch(s, 1) \o re_sub_lazy_span(Drop(s, 1), open, close, rep)

RECURSIVE re_sub_class_run(_, _, _)
\* re.sub of  [set]+
re_sub_class_run(s, set, rep) ==
  IF s = "" THEN ""
  ELSE IF Ch(s, 1) \in set
    THEN rep \o re_sub_class_run(Drop(s, RunLen(s, 1, set)), set, rep)
    ELSE Ch(s, 1) \o re_sub_class_run(Drop(s, 1), set, rep)

\* length of the match at position 1 of  p1 s* p2 s* p3  (s* a run of the letter s,
\* p1, p2, p3 literal texts, p3 possibly empty), 0 if none
SStarMatchLen(s, p1, p2, p3) ==
  IF ~StartsWithAt(s, 1, p1) THEN 0
  ELSE LET a == Len(p1) + RunLen(s, Len(p1) + 1, {"s"})
       IN IF ~StartsWithAt(s, a + 1, p2) THEN 0
          ELSE LET b == a + Len(p2) + RunLen(s, a + Len(p2) + 1, {"s"})
               IN IF StartsWithAt(s, b + 1, p3) THEN b + Len(p3) ELSE 0

RECURSIVE re_sub_sstar(_, _, _, _, _)
\* re.sub of  p1 s* p2 s* p3
re_sub_sstar(s, p1, p2, p3, rep) ==
  IF s = "" THEN ""
  ELSE IF SStarMatchLen(s, p1, p2, p3) > 0
    THEN rep \o re_sub_sstar(Drop(s, SStarMatchLen(s, p1, p2, p3)), p1, p2, p3, rep)
    ELSE Ch(s, 1) \o re_sub_sstar(Drop(s, 1), p1, p2, p3, rep)

RECURSIVE re_sub_lit_splus(_, _, _)
\* re.sub of  lit s+  (the literal text lit, then one or more of the letter s)
re_sub_lit_splus(s, lit, rep) ==
  IF s = "" THEN ""
  ELSE IF StartsWithAt(s, 1, lit) /\ RunLen(s, Len(lit) + 1, {"s"}) >= 1
    THEN rep \o re_sub_lit_splus(Drop(s, Len(lit) + RunLen(s, Len(lit) + 1, {"s"})), lit, rep)
    ELSE Ch(s, 1) \o re_sub_lit_splus(Drop(s, 1), lit, rep)

(***************************************************************************)
(* create_asset_key: the asset-identity normaliser.                        *)
(* The patterns of the generic normalisation are written in the source as  *)
(* raw strings with doubled backslashes, so  \\b  is a backslash followed  *)
(* by the letter b,  \\s  a backslash followed by the letter s, and        *)
(* [-\\s]  the class of  -  \  and  s.  They are modelled as written.      *)
(***************************************************************************)
BS == "\\"

\* lines 1682-1702: the generic normalisation
GenericNormalize(key0) ==
  LET k1 == re_sub_literals(key0, <<BS \o "DEMAT" \o BS>>, "")
      k2 == re_sub_lazy_span(k1, BS \o "ERSTWHILE", BS, "")
      k3 == re_sub_literals(k2, <<BS \o "bCLASS A1" \o BS \o "b",
                                  BS \o "bCL A1" \o BS \o "b",
                                  BS \o "bCLASS B1" \o BS \o "b",
                                  BS \o "bCL B1" \o BS \o "b",
                                  BS \o "bCL D4" \o BS \o "b">>, "")
      k4 == re_sub_literals(k3, <<BS \o "bDIRECT PLAN" \o BS \o "b",
                                  BS \o "bREGULAR PLAN" \o BS \o "b">>, "")
      k5 == re_sub_literals(k4, <<BS \o "bGROWTH" \o BS \o "b">>, "")
      k6 == re_sub_literals(k5, <<BS \o "bLTD" \o BS \o "b",
                                  BS \o "bLIMITED" \o BS \o "b">>, "")
      k7 == re_sub_literals(k6, <<BS \o "bLLP" \o BS \o "b">>, "")
      k8 == re_sub_literals(k7, <<BS \o "bFUND" \o BS \o "b">>, "")
      k9 == re_sub_literals(k8, <<BS \o "bAIF" \o BS \o "b">>, "")
      k10 == re_sub_literals(k9, <<BS \o "bEQUITY" \o BS \o "b">>, "")
      k11 == re_sub_literals(k10, <<BS \o "bVI" \o BS \o "b">>, "")
      k12 == re_sub_literals(k11, <<BS \o "bTRUST" \o BS \o "b">>, "")
      k13 == re_sub_literals(k12, <<BS \o "bINVESTMENT" \o BS \o "b">>, "")
      k14 == re_sub_literals(k13, <<BS \o "bALTERNATIVE" \o BS \o "b">>, "")
      k15 == re_sub_literals(k14, <<BS \o "bSERIES" \o BS \o "b",
                                    BS \o "bSR" \o BS \o "b">>, "")
      k16 == re_sub_literals(k15, <<BS \o "bI" \o BS \o "b",
                                    BS \o "bIV" \o BS \o "b">>, "")
      k17 == re_sub_class_run(k16, {"-", BS, "s"}, " ")
      k18 == re_sub_sstar(k17, BS, "-" \o BS, "25-", "")
      k19 == re_sub_sstar(k18, BS, "6W" \o BS, "12A", "")
      k20 == re_sub_sstar(k19, BS, "OPT" \o BS, "1", "")
      k21 == re_sub_lit_splus(k20, BS, " ")
  IN str_strip(k21)

\* lines 1673-1679: the Motilal Oswal family
MotilalKey(key) ==
  IF Contains(key, "SELECT") /\ (Contains(key, "OPP") \/ Contains(key, "OPPORTUNITIES"))
    THEN "MOTILAL OSWAL SELECT OPPORTUNITIES"
  ELSE IF \/ Contains(key, "FOUNDERS")
          \/ (Contains(key, "MOTILAL") /\ Contains(key, "OSWL") /\ Contains(key, "ANCHORS"))
    THEN "MOTILAL OSWAL FOUNDERS"
  ELSE "MOTILAL OSWAL ALTERNATIVE"

\* lines 1648-1704
create_asset_key(asset_name) ==
  LET key == str_upper(asset_name)
      date_match == DateSearch(key)
      date_suffix == IF date_match # "" THEN "_" \o date_match ELSE ""
      series_match == SeriesSearch(key)
      series_suffix == IF series_match # "" THEN "_" \o series_match ELSE ""
  IN IF Contains(key, "ASK") /\ Contains(key, "GROWTH") /\ Contains(key, "INDIA")
       THEN "ASK GROWTH INDIA" \o series_suffix \o date_suffix
     ELSE IF /\ Contains(key, "ALTACURA") /\ Contains(key, "AI")
             /\ Contains(key, "ABSOLUTE") /\ Contains(key, "RETURN")
       THEN str_replace(key, " ", "_")
     ELSE IF /\ Contains(key, "WHITE") /\ Contains(key, "OAK") /\ Contains(key, "INDIA")
             /\ (Contains(key, "EQUITY") \/ Contains(key, "VI"))
       THEN "WHITE OAK INDIA EQUITY" \o date_suffix
     ELSE IF Contains(key, "ACCURACAP") /\ (Contains(key, "ALPHA") \/ Contains(key, "PRIME"))
       THEN "ACCURACAP ALPHA" \o date_suffix
     ELSE IF Contains(key, "WHITE") /\ Contains(key, "SPACE") /\ Contains(key, "ALPHA")
       THEN str_replace(key, " ", "_")
     ELSE IF /\ Contains(key, "MOTILAL OSWAL")
             /\ \/ Contains(key, "ALTERNATIVE")
                \/ Contains(key, "FOUNDERS")
                \/ Contains(key, "SELECT")
       THEN MotilalKey(key)
     ELSE GenericNormalize(key)

(***************************************************************************)
(* Holding records and the inputs of the deduplication engine.             *)
(***************************************************************************)
\* largest number of holdings in an input list built from SmallNames
MaxHoldings == 3

\* line 1617: manager_priority
manager_priority ==
  <<"Client Associates", "IND Money", "Yes Bank", "Motilal Oswal", "IIFL 360 One", "Kotak">>

PriorityManagers == {manager_priority[i] : i \in 1..Len(manager_priority)}

\* a manager_name that is not in manager_priority
OtherManager == "HDFC Securities"

Managers == PriorityManagers \cup {OtherManager}

\* position of a manager in manager_priority, 0 for one that is not in it
PriorityOf(m) ==
  IF m \in PriorityManagers
    THEN CHOOSE i \in 1..Len(manager_priority) : manager_priority[i] = m
    ELSE 0

\* two spellings of one instrument, and a different instrument
SmallNames ==
  {"ASK Growth India Fund Series I", "ASK GROWTH INDIA AIF SERIES I", "HDFC Flexi-Cap Fund"}

FundBases ==
  {"ABC Growth Fund", "ASK Growth India Fund", "ASK Growth India Class A",
   "White Oak India Equity Fund", "Accuracap Alpha", "White Space Alpha Fund",
   "Motilal Oswal Select Opportunities", "Altacura AI Absolute Return Fund",
   "HDFC Flexi-Cap Fund"}

TrancheSpellings == {" Series I", " Series II", " - Series I"}

CatalogNames ==
  {b \o t : b \in FundBases, t \in TrancheSpellings}
    \cup {"ABC GROWTH FUND SR I"} \cup SmallNames

\* the issuers of the input lists built from SmallNames
ListManagers == {"Client Associates", "IND Money", "Motilal Oswal", "Kotak", OtherManager}

\* the two issuers of the two-holding inputs built from CatalogNames
PairManagers == {"Client Associates", "Kotak"}

\* the standard_schema (lines 19-31) filled in by an extractor; every issuer
\* reports its own market value for the instrument, and raw_data holds the
\* provenance of the record (here: its row)
Holding(m, n, row) ==
  [manager_name |-> m,
   asset_type |-> "AIF",
   asset_name |-> n,
   current_investment_value |-> 50000,
   current_market_value |-> 50000 + 1000 * PriorityOf(m),
   value_as_of_date |-> "2025-08-31",
   pl_amount |-> 1000 * PriorityOf(m),
   pl_percentage |-> 2 * PriorityOf(m),
   irr_percentage |-> 0,
   investment_date |-> "",
   raw_data |-> [row_index |-> row]]

SeqsUpTo(S, n) == UNION {[1..k -> S] : k \in 0..n}

\* the lists remove_duplicates is given
InputLists ==
  {[i \in DOMAIN p |-> Holding(p[i][1], p[i][2], i)] :
      p \in SeqsUpTo(ListManagers \X SmallNames, MaxHoldings)
            \cup [1..2 -> PairManagers \X CatalogNames]}

(***************************************************************************)
(* remove_duplicates: the deduplication engine (lines 1601-1646).          *)
(***************************************************************************)
\* create_asset_key on every name of the inputs
AssetKeys == [n \in CatalogNames |-> create_asset_key(n)]

VARIABLES
  asset_keys           \* AssetKeys, evaluated once (create_asset_key is pure)

\* the call create_asset_key(holding['asset_name'])
asset_key_of(holding) == asset_keys[holding.asset_name]

\* a variant that names the manager of the first retained holding, whatever its key
get_original_manager_first(seen_assets, asset_key, clean) ==
  IF clean = <<>> THEN "Unknown" ELSE Head(clean).manager_name

RECURSIVE get_original_manager(_, _, _)
\* lines 1706-1711
get_original_manager(seen_assets, asset_key, clean) ==
  IF clean = <<>> THEN "Unknown"
  ELSE IF asset_key_of(Head(clean)) = asset_key
    THEN Head(clean).manager_name
    ELSE get_original_manager(seen_assets, asset_key, Tail(clean))

\* a variant that resets the P&L of the record it logs
LogEntry_reset(holding, original_manager) ==
  [duplicate_holding |-> [holding EXCEPT !.pl_amount = 0, !.pl_percentage = 0],
   original_manager |-> original_manager]

\* lines 1631-1634: an entry of removed_duplicates
LogEntry(holding, original_manager) ==
  [duplicate_holding |-> holding, original_manager |-> original_manager]

\* a variant that puts the holding at the front of the list
KeepHolding_front(clean, holding) == <<holding>> \o clean

\* line 1639: clean_holdings.append(holding)
KeepHolding(clean, holding) == Append(clean, holding)

\* lines 1627-1639: the body of the inner loop; st holds the locals
\* seen_assets, clean_holdings and removed_duplicates
ProcessHolding(st, holding) ==
  LET asset_key == asset_key_of(holding)
  IN IF asset_key \in st.seen_assets
       THEN [st EXCEPT !.removed_duplicates =
               Append(@, LogEntry(holding,
                   get_original_manager(st.seen_assets, asset_key, st.clean_holdings)))]
       ELSE [st EXCEPT !.seen_assets = @ \cup {asset_key},
                       !.clean_holdings = KeepHolding(@, holding)]

RECURSIVE ProcessHoldings(_, _)
\* line 1626: for holding in holdings_by_manager[manager]
ProcessHoldings(st, hs) ==
  IF hs = <<>> THEN st ELSE ProcessHoldings(ProcessHolding(st, Head(hs)), Tail(hs))

\* lines 1605-1610: holdings_by_manager[manager], in input order
holdings_by_manager(all, manager) ==
  SelectSeq(all, LAMBDA h : h.manager_name = manager)

\* a variant that takes the holdings in input order, whatever their issuer
ProcessManagers_input_order(st, all, i) ==
  ProcessHoldings(st, SelectSeq(all, LAMBDA h : h.manager_name \in PriorityManagers))

RECURSIVE ProcessManagers(_, _, _)
\* lines 1622-1624: for manager in manager_priority, from position i on
ProcessManagers(st, all, i) ==
  IF i > Len(manager_priority) THEN st
  ELSE ProcessManagers(ProcessHoldings(st, holdings_by_manager(all, manager_priority[i])),
                       all, i + 1)

\* the locals of remove_duplicates when it returns
remove_duplicates_locals(all) ==
  ProcessManagers([seen_assets |-> {}, clean_holdings |-> <<>>,
                   removed_duplicates |-> <<>>], all, 1)

\* line 1646: return clean_holdings; the tuple of the values returned
remove_duplicates(all) == <<remove_duplicates_locals(all).clean_holdings>>

(***************************************************************************)
(* Numbers: clean_currency_value (lines 33-45) and the float() calls.      *)
(***************************************************************************)
\* n currency units, in hundredths
Amount(n) == 100 * n

DigitValue(c) == CHOOSE d \in 0..9 : Ch("0123456789", d + 1) = c

RECURSIVE DigitsValue(_)
\* int() of a run of digits (0 for the empty run)
DigitsValue(s) ==
  IF Len(s) = 0 THEN 0
  ELSE 10 * DigitsValue(SubSeq(s, 1, Len(s) - 1)) + DigitValue(Ch(s, Len(s)))

\* str.isdigit()
str_isdigit(s) == Len(s) > 0 /\ \A i \in 1..Len(s) : Ch(s, i) \in DigitChars

\* str.find(c) + 1 for a character c: its first position, 0 if absent
IndexOf(s, c) ==
  LET hits == {i \in 1..Len(s) : Ch(s, i) = c}
  IN IF hits = {} THEN 0 ELSE CHOOSE i \in hits : \A k \in hits : i <= k

\* float(s) on a decimal literal: an optional sign, digits, an optional point
\* and digits.  ok is FALSE where float raises ValueError; value is in
\* hundredths, decimals beyond the second dropped.  (Exponents, inf, nan and
\* digit-group underscores do not occur in the cells of the model.)
float(s) ==
  LET signed == Len(s) > 0 /\ Ch(s, 1) \in {"+", "-"}
      Signed(mag) == IF signed /\ Ch(s, 1) = "-" THEN 0 - mag ELSE mag
      Value(ip, fp) ==
        IF /\ \A i \in 1..Len(ip) : Ch(ip, i) \in DigitChars
           /\ \A i \in 1..Len(fp) : Ch(fp, i) \in DigitChars
           /\ Len(ip) + Len(fp) > 0
          THEN [ok |-> TRUE,
                value |-> Signed(100 * DigitsValue(ip) + DigitsValue(SubSeq(fp \o "00", 1, 2)))]
          ELSE [ok |-> FALSE, value |-> 0]
      Parts(body, dot) ==
        Value(IF dot = 0 THEN body ELSE SubSeq(body, 1, dot - 1),
              IF dot = 0 THEN "" ELSE Drop(body, dot))
      Unsigned(body) == Parts(body, IndexOf(body, "."))
  IN Unsigned(IF signed THEN Drop(s, 1) ELSE s)

\* the class [₹$,\s] of line 39
CurrencyNoise == {"₹", "$", ","} \cup SpaceChars

\* the value None of a table cell that holds no text; str(None) is 'None'
None == "<None>"

\* the truth value of a cell: None and '' are false
Truthy(cell) == cell # None /\ cell # ""

\* str(cell)
str(cell) == IF cell = None THEN "None" ELSE cell

\* lines 33-45 (pd.isna is true of None only)
clean_currency_value(value_str) ==
  IF ~Truthy(value_str) \/ str_strip(value_str) = "-" \/ str_strip(value_str) = ""
    THEN 0
    ELSE LET Parsed(number) == IF number.ok THEN number.value ELSE 0
         IN Parsed(float(re_sub_class_run(value_str, CurrencyNoise, "")))

\* the except clause of a try that catches nothing
CaughtNothing == {}

\* line 44: the exceptions the except clause of clean_currency_value catches
CaughtByCleanCurrencyValue == {"ValueError"}

\* lines 33-45 as a call: how it ends (float raises ValueError for a string
\* that is no float literal) and the value it returns
clean_currency_value_call(value_str) ==
  LET Returns(value) == [outcome |-> "returns", value |-> value]
      Tried(number) ==
        IF number.ok THEN Returns(number.value)
        ELSE IF "ValueError" \in CaughtByCleanCurrencyValue THEN Returns(0)
        ELSE [outcome |-> "raises", value |-> 0]
  IN IF ~Truthy(value_str) \/ str_strip(value_str) = "-" \/ str_strip(value_str) = ""
       THEN Returns(0)
       ELSE Tried(float(re_sub_class_run(value_str, CurrencyNoise, "")))

RECURSIVE QuotientDigits(_, _, _)
\* the first n decimals of  remainder / divisor  (0 <= remainder < divisor), as a number
QuotientDigits(remainder, divisor, n) ==
  IF n = 0 THEN 0
  ELSE LET r == 10 * remainder
       IN (r \div divisor) * (10 ^ (n - 1)) + QuotientDigits(r % divisor, divisor, n - 1)

\* (pl_amount / investment) * 100 for investment > 0, in hundredths of a percent,
\* rounded down (long division keeps the intermediate values small)
Percentage(pl_amount, investment) ==
  (pl_amount \div investment) * 10000 + QuotientDigits(pl_amount % investment, investment, 4)

RECURSIVE RunLenNot(_, _, _)
\* number of consecutive characters of s, from position i on, that are not in set
RunLenNot(s, i, set) ==
  IF i <= Len(s) /\ Ch(s, i) \notin set THEN 1 + RunLenNot(s, i + 1, set) ELSE 0

RECURSIVE str_split(_)
\* str.split(): the maximal runs of non-whitespace characters
str_split(s) ==
  LET t == str_lstrip(s)
      n == RunLenNot(t, 1, SpaceChars)
  IN IF t = "" THEN <<>> ELSE <<SubSeq(t, 1, n)>> \o str_split(Drop(t, n))

RECURSIVE str_split_on(_, _)
\* str.split(sep) for a one-character sep
str_split_on(s, sep) ==
  LET n == RunLenNot(s, 1, {sep})
  IN IF n = Len(s) THEN <<s>> ELSE <<SubSeq(s, 1, n)>> \o str_split_on(Drop(s, n + 1), sep)

RECURSIVE str_join(_, _)
\* sep.join(parts)
str_join(parts, sep) ==
  IF parts = <<>> THEN ""
  ELSE IF Len(parts) = 1 THEN parts[1]
  ELSE parts[1] \o sep \o str_join(Tail(parts), sep)

(***************************************************************************)
(* parse_date (lines 47-80).                                               *)
(***************************************************************************)
\* the character at position i, "" outside the string
At(s, i) == IF 1 <= i /\ i <= Len(s) THEN Ch(s, i) ELSE ""

LowerCh(c) ==
  IF c \in UpperChars
    THEN Ch(LowerAlphabet, CHOOSE i \in 1..26 : Ch(UpperAlphabet, i) = c)
    ELSE c

RECURSIVE str_lower(_)
\* str.lower()
str_lower(s) ==
  IF s = "" THEN "" ELSE LowerCh(Ch(s, 1)) \o str_lower(Drop(s, 1))

\* str.isalpha()
str_isalpha(s) ==
  Len(s) > 0 /\ \A i \in 1..Len(s) : Ch(s, i) \in LowerChars \cup UpperChars

\* str.zfill(2)
zfill2(s) == IF Len(s) = 0 THEN "00" ELSE IF Len(s) = 1 THEN "0" \o s ELSE s

\* the least element of a non-empty set of positions
Least(S) == CHOOSE i \in S : \A k \in S : i <= k

\* the groups of  (\d{2})/(\d{2})/(\d{4})  matched at position i, <<>> if none
SlashDateAt(s, i) ==
  IF /\ RunLen(s, i, DigitChars) >= 2
     /\ At(s, i + 2) = "/"
     /\ RunLen(s, i + 3, DigitChars) >= 2
     /\ At(s, i + 5) = "/"
     /\ RunLen(s, i + 6, DigitChars) >= 4
    THEN <<SubSeq(s, i, i + 1), SubSeq(s, i + 3, i + 4), SubSeq(s, i + 6, i + 9)>>
    ELSE <<>>

\* the groups of  (\d{1,2})\s+(\w+)\s+(\d{4})  matched at position i, <<>> if none
DayMonthYearAt(s, i) ==
  LET Year(d, m, w, y) ==
        IF RunLen(s, y, DigitChars) >= 4
          THEN <<SubSeq(s, i, i + d - 1), SubSeq(s, m, m + w - 1), SubSeq(s, y, y + 3)>>
          ELSE <<>>
      Month(d, m, w, s2) == IF w >= 1 /\ s2 >= 1 THEN Year(d, m, w, m + w + s2) ELSE <<>>
      Word(d, m, w) == Month(d, m, w, RunLen(s, m + w, SpaceChars))
      Day(d, s1) ==
        IF d >= 1 /\ s1 >= 1
          THEN Word(d, i + d + s1, RunLen(s, i + d + s1, WordChars))
          ELSE <<>>
      Digits(d) == Day(d, RunLen(s, i + d, SpaceChars))
  IN Digits(Min(RunLen(s, i, DigitChars), 2))

\* the groups of  (\d{4})-(\d{2})-(\d{2})  matched at position i, <<>> if none
IsoDateAt(s, i) ==
  IF /\ RunLen(s, i, DigitChars) >= 4
     /\ At(s, i + 4) = "-"
     /\ RunLen(s, i + 5, DigitChars) >= 2
     /\ At(s, i + 7) = "-"
     /\ RunLen(s, i + 8, DigitChars) >= 2
    THEN <<SubSeq(s, i, i + 3), SubSeq(s, i + 5, i + 6), SubSeq(s, i + 8, i + 9)>>
    ELSE <<>>

\* re.search(patterns[k], s).groups(), <<>> for no match
DatePatternSearch(k, s) ==
  LET at(i) == IF k = 1 THEN SlashDateAt(s, i)
               ELSE IF k = 2 THEN DayMonthYearAt(s, i)
               ELSE IsoDateAt(s, i)
      Leftmost(groups, hits) == IF hits = {} THEN <<>> ELSE groups[Least(hits)]
      Search(groups) == Leftmost(groups, {i \in 1..Len(s) : groups[i] # <<>>})
  IN Search([i \in 1..Len(s) |-> at(i)])

\* lines 70-75: month_map.get(month.lower()[:3], '01')
MonthAbbreviations ==
  <<"jan", "feb", "mar", "apr", "may", "jun", "jul", "aug", "sep", "oct", "nov", "dec">>

month_map_get(abbr) ==
  LET hits == {k \in 1..12 : MonthAbbreviations[k] = abbr}
  IN IF hits = {} THEN "01" ELSE zfill2(ToString(Least(hits)))

\* lines 63-76: the value returned for a match with these groups
DateFromGroups(date_str, groups) ==
  IF Contains(date_str, "-") THEN SubSeq(date_str, 1, Min(10, Len(date_str)))
  ELSE LET day == groups[1]
           month == IF str_isalpha(groups[2])
                      THEN month_map_get(SubSeq(str_lower(groups[2]), 1, Min(3, Len(groups[2]))))
                      ELSE groups[2]
           year == groups[3]
       IN year \o "-" \o zfill2(month) \o "-" \o zfill2(day)

\* lines 47-80, on a text
parse_date(date_str) ==
  IF date_str = "" THEN ""
  ELSE LET FirstPattern(found, hits) ==
             IF hits = {} THEN date_str ELSE DateFromGroups(date_str, found[Least(hits)])
           Matched(found) == FirstPattern(found, {k \in 1..3 : found[k] # <<>>})
       IN Matched([k \in 1..3 |-> DatePatternSearch(k, date_str)])

(***************************************************************************)
(* The emission paths of the extractors.  Each operator is the body of the *)
(* loop that visits one row, line or table of a page: it is given the      *)
(* holdings collected so far and returns the list after the visit.         *)
(* raw_data keeps the keys that depend on the visited row alone.           *)
(***************************************************************************)
\* lines 19-31
standard_schema ==
  [manager_name |-> "", asset_type |-> "", asset_name |-> "",
   current_investment_value |-> 0, current_market_value |-> 0,
   value_as_of_date |-> "", pl_amount |-> 0, pl_percentage |-> 0,
   irr_percentage |-> 0, investment_date |-> "", raw_data |-> <<>>]

\* row[k] of the source, k counted from 0
Cell(row, k) == row[k + 1]

\* str(cell).strip() if cell else ''
CellText(cell) == IF Truthy(cell) THEN str_strip(str(cell)) ELSE ""

\* any(keyword in text for keyword in keywords)
ContainsAny(text, keywords) == \E k \in keywords : Contains(text, k)

\* any(char.isdigit() for char in text)
AnyDigit(text) == \E i \in 1..Len(text) : Ch(text, i) \in DigitChars

Abs(x) == IF x < 0 THEN 0 - x ELSE x

(***************************************************************************)
(* IND Money (lines 170-309).                                              *)
(***************************************************************************)
\* currency_converter.py, lines 12-114: the methods of CurrencyConverter
CurrencyConverterMethods ==
  {"__init__", "load_cache", "save_cache", "is_cache_valid",
   "get_exchange_rate", "convert_amount", "format_currency"}

RECURSIVE INDMoneyScan(_, _, _)
\* lines 266-276: the scan of the columns from col_idx on
INDMoneyScan(row, col_idx, usd) ==
  IF col_idx >= Len(row) THEN usd
  ELSE LET Scanned(cell, value) ==
             [market_value_usd |->
                IF /\ Truthy(cell) /\ value > Amount(100) /\ col_idx >= 3
                   /\ (usd.market_value_usd = 0 \/ col_idx = 4)
                  THEN value ELSE usd.market_value_usd,
              cost_basis_usd |->
                IF /\ Truthy(cell) /\ value > Amount(100) /\ col_idx >= 6
                   /\ (usd.cost_basis_usd = 0 \/ col_idx = 7)
                  THEN value ELSE usd.cost_basis_usd]
       IN INDMoneyScan(row, col_idx + 1,
                       Scanned(Cell(row, col_idx), clean_currency_value(Cell(row, col_idx))))

\* lines 240-303: one data row of a holdings table; exchange_rate in hundredths,
\* no Excel report of holding dates given
INDMoneyRow(holdings, row, exchange_rate, report_date) ==
  LET Candidate(symbol, description, usd, market_value, investment) ==
        [standard_schema EXCEPT
           !.manager_name = "IND Money",
           !.asset_type = "US Stocks",
           !.asset_name = symbol \o " - " \o SubSeq(description, 1, Min(30, Len(description))),
           !.value_as_of_date = report_date,
           !.current_market_value = market_value,
           !.current_investment_value = investment,
           !.pl_amount = market_value - investment,
           !.pl_percentage = IF investment > 0
                               THEN Percentage(market_value - investment, investment)
                               ELSE 0,
           !.raw_data = [symbol |-> symbol,
                         market_value_usd |-> usd.market_value_usd,
                         cost_basis_usd |-> usd.cost_basis_usd,
                         exchange_rate |-> exchange_rate]]
      Emit(holding) ==
        IF holding.current_market_value > 0 THEN Append(holdings, holding) ELSE holdings
      Converted(symbol, description, usd) ==
        Emit(Candidate(symbol, description, usd,
                     (usd.market_value_usd * exchange_rate) \div 100,
                     (usd.cost_basis_usd * exchange_rate) \div 100))
      Named(symbol) ==
        IF \/ symbol = "" \/ StartsWithAt(symbol, 1, "*")
           \/ symbol \in {"Symbol", "Total", "Grand Total"} THEN holdings
        ELSE Converted(symbol, CellText(Cell(row, 1)),
                       INDMoneyScan(row, 0, [market_value_usd |-> 0, cost_basis_usd |-> 0]))
  IN IF Len(row) < 5 THEN holdings ELSE Named(CellText(Cell(row, 0)))

\* lines 104-108: month_map
PeriodMonths ==
  [JANUARY |-> "01", FEBRUARY |-> "02", MARCH |-> "03", APRIL |-> "04", MAY |-> "05",
   JUNE |-> "06", JULY |-> "07", AUGUST |-> "08", SEPTEMBER |-> "09", OCTOBER |-> "10",
   NOVEMBER |-> "11", DECEMBER |-> "12"]

\* the groups of  ([A-Z]+)\s*-\s*(\d{4})  matched at position i, <<>> if none
PeriodAt(s, i) ==
  LET Year(from) ==
        IF RunLen(s, from, DigitChars) >= 4 THEN SubSeq(s, from, from + 3) ELSE ""
      Dash(name, at) ==
        IF name # "" /\ At(s, at) = "-" /\ Year(at + 1 + RunLen(s, at + 1, SpaceChars)) # ""
          THEN <<name, Year(at + 1 + RunLen(s, at + 1, SpaceChars))>>
          ELSE <<>>
      Named(letters) ==
        Dash(SubSeq(s, i, i + letters - 1), i + letters + RunLen(s, i + letters, SpaceChars))
  IN Named(RunLen(s, i, UpperChars))

\* lines 93-123
parse_date_from_period(period_str) ==
  LET Dated(month_num, year) ==
        year \o "-" \o month_num \o "-" \o
          (IF month_num \in {"01", "03", "05", "07", "08", "10", "12"} THEN "31"
           ELSE IF month_num \in {"04", "06", "09", "11"} THEN "30" ELSE "28")
      Matched(groups) ==
        Dated(IF groups[1] \in DOMAIN PeriodMonths THEN PeriodMonths[groups[1]] ELSE "12",
              groups[2])
      Search(upper) ==
        LET Starts(at) == {i \in at : PeriodAt(upper, i) # <<>>}
            Found(starts) ==
              IF starts = {} THEN "" ELSE Matched(PeriodAt(upper, Least(starts)))
        IN Found(Starts(1..Len(upper)))
  IN IF period_str = "" THEN "" ELSE Search(str_upper(period_str))

RECURSIVE INDMoneyRows(_, _, _, _)
\* line 240: for row in table[header_row_idx + 1:]
INDMoneyRows(holdings, rows, exchange_rate, report_date) ==
  IF rows = <<>> THEN holdings
  ELSE INDMoneyRows(INDMoneyRow(holdings, Head(rows), exchange_rate, report_date),
                    Tail(rows), exchange_rate, report_date)

\* lines 170-309 on a statement whose holdings table has these data rows.
\* Line 192 calls self.currency_converter.get_usd_to_inr_rate: a method
\* CurrencyConverter does not define raises AttributeError there, which the
\* handler of lines 307-309 turns into the empty list.
INDMoneyExtract(rows, rates, report_date) ==
  IF "get_usd_to_inr_rate" \notin CurrencyConverterMethods THEN {<<>>}
  ELSE {INDMoneyRows(<<>>, rows, exchange_rate, report_date) : exchange_rate \in rates}

(***************************************************************************)
(* Client Associates (lines 314-592).                                      *)
(***************************************************************************)
RECURSIVE IndianNumbers(_)
\* lines 423-430 and 447-455: the floats of the parts of a data line
IndianNumbers(parts) ==
  IF parts = <<>> THEN <<>>
  ELSE LET Kept(clean_part, number) ==
             IF (Contains(clean_part, ".") \/ str_isdigit(clean_part)) /\ number.ok
               THEN <<number.value>> ELSE <<>>
           Part(clean_part) == Kept(clean_part, float(clean_part))
       IN Part(str_replace(Head(parts), ",", "")) \o IndianNumbers(Tail(parts))

\* lines 377-384 and 401-404: position in parts of the first part that starts
\* with dd/mm/yyyy, 0 if none
DateIndex(parts) ==
  LET hits == {j \in 1..Len(parts) : SlashDateAt(parts[j], 1) # <<>>}
  IN IF hits = {} THEN 0 ELSE Least(hits)

\* lines 414-433: the ten values of a candidate line, <<>> if it is not a data line
CandidateValues(text_line) ==
  LET Ten(values) == IF Len(values) = 10 THEN values ELSE <<>>
      Candidate(candidate_line) ==
        IF /\ Len(candidate_line) >= 20
           /\ \A i \in 1..Len(candidate_line) :
                 Ch(candidate_line, i) \in DigitChars \cup {".", ",", " "}
          THEN Ten(IndianNumbers(str_split(candidate_line)))
          ELSE <<>>
  IN Candidate(str_strip(text_line))

\* lines 408-436: next_line_values, from the (at most three) lines that follow
NextLineValues(following) ==
  LET First(found, hits) == IF hits = {} THEN <<>> ELSE found[Least(hits)]
      Found(found) == First(found, {k \in DOMAIN found : found[k] # <<>>})
  IN Found([k \in 1..Min(3, Len(following)) |-> CandidateValues(following[k])])

\* lines 355-514: one line of the page text, with the lines that follow it
ClientAssociatesLine(holdings, text_line, following, report_date) ==
  LET Emit(line, fund_name, investment_date, converted_values, positioned,
           total_cost, market_value) ==
        IF total_cost > Amount(1000) /\ market_value > Amount(1000)
          THEN Append(holdings,
                 [standard_schema EXCEPT
                    !.manager_name = "Client Associates",
                    !.asset_type = "AIF",
                    !.asset_name = fund_name,
                    !.value_as_of_date = report_date,
                    !.investment_date = investment_date,
                    !.current_investment_value = total_cost,
                    !.current_market_value = market_value,
                    !.pl_amount = IF positioned THEN market_value - total_cost ELSE 0,
                    !.pl_percentage =
                       IF positioned /\ total_cost > 0
                         THEN Percentage(market_value - total_cost, total_cost) ELSE 0,
                    !.irr_percentage =
                       IF positioned /\ Len(converted_values) > 8
                         THEN converted_values[9] ELSE 0,
                    !.raw_data = [numeric_values |-> converted_values, raw_line |-> line]])
          ELSE holdings
      Positioned(line, fund_name, investment_date, converted_values, positioned) ==
        Emit(line, fund_name, investment_date, converted_values, positioned,
             IF positioned THEN converted_values[3] ELSE 0,
             IF positioned THEN converted_values[5] ELSE 0)
      Converted(line, parts, date_index, next_line_values) ==
        Positioned(line,
                   str_join(SubSeq(parts, 1, date_index - 1), " "),
                   parse_date(parts[date_index]),
                   IF next_line_values # <<>> THEN next_line_values
                   ELSE IndianNumbers(SubSeq(parts, date_index + 1, Len(parts))),
                   Len(IF next_line_values # <<>> THEN next_line_values
                       ELSE IndianNumbers(SubSeq(parts, date_index + 1, Len(parts)))) >= 5)
      Dated(line, parts, date_index) ==
        IF date_index <= 1 THEN holdings
        ELSE Converted(line, parts, date_index, NextLineValues(following))
      Line(line) ==
        IF line \in {"Equity", "Debt"} THEN holdings
        ELSE IF \/ line = "" \/ line \in {"-", "PRIVATE AND CONFIDENTIAL"}
                \/ Contains(line, "Report Date") THEN holdings
        ELSE IF ~(ContainsAny(line, {"Fund", "AIF", "Alpha", "Growth"}) /\ AnyDigit(line))
          THEN holdings
        ELSE Dated(line, str_split(line), DateIndex(str_split(line)))
  IN Line(str_strip(text_line))

\* lines 533-586: one row of a table that has a Security header
ClientAssociatesTableRow(holdings, row, report_date) ==
  LET Emit(security_name, total_cost, market_value) ==
        IF /\ total_cost > Amount(1000)
           /\ market_value > Amount(1000)
           /\ ~\E i \in DOMAIN holdings :
                 /\ holdings[i].asset_name = security_name
                 /\ Abs(holdings[i].current_investment_value - total_cost) < Amount(1000)
          THEN Append(holdings,
                 [standard_schema EXCEPT
                    !.manager_name = "Client Associates",
                    !.asset_type = "AIF",
                    !.asset_name = security_name,
                    !.value_as_of_date = report_date,
                    !.investment_date = parse_date(str(Cell(row, 1))),
                    !.current_investment_value = total_cost,
                    !.current_market_value = market_value,
                    !.pl_amount =
                       IF Len(row) > 10 THEN clean_currency_value(Cell(row, 10)) ELSE 0,
                    !.pl_percentage =
                       IF Len(row) > 11 THEN clean_currency_value(Cell(row, 11)) ELSE 0,
                    !.raw_data = [source |-> "table"]])
          ELSE holdings
      Named(security_name) ==
        IF \/ security_name = ""
           \/ security_name \in {"Security", "Equity", "Debt", "-", "Equity - Total"}
           \/ Contains(security_name, "Date") THEN holdings
        ELSE IF ~ContainsAny(security_name, {"Fund", "AIF", "Alpha", "Growth"}) THEN holdings
        ELSE Emit(security_name,
                  clean_currency_value(Cell(row, 6)),
                  IF Len(row) > 8 THEN clean_currency_value(Cell(row, 8)) ELSE 0)
  IN IF Len(row) < 8 THEN holdings ELSE Named(CellText(Cell(row, 0)))

(***************************************************************************)
(* Yes Bank (lines 597-819).                                               *)
(***************************************************************************)
\* the digit runs of a match of  \d+,\d+,\d+\.\d+  at position i
IndianAmountRuns(s, i) ==
  LET Runs(a, b, c, d) ==
        [ok |-> /\ a >= 1 /\ At(s, i + a) = ","
                /\ b >= 1 /\ At(s, i + a + b + 1) = ","
                /\ c >= 1 /\ At(s, i + a + b + c + 2) = "."
                /\ d >= 1,
         head |-> a + b + c + 3, decimals |-> d]
      Third(a, b, c) == Runs(a, b, c, RunLen(s, i + a + b + c + 3, DigitChars))
      Second(a, b) == Third(a, b, RunLen(s, i + a + b + 2, DigitChars))
      First(a) == Second(a, RunLen(s, i + a + 1, DigitChars))
  IN First(RunLen(s, i, DigitChars))

\* length of the (greedy) match of  \d+,\d+,\d+\.\d+  at position i, 0 if none
IndianAmountLen(s, i) ==
  LET Length(runs) == IF runs.ok THEN runs.head + runs.decimals ELSE 0
  IN Length(IndianAmountRuns(s, i))

\* length of the shortest match of  \d+,\d+,\d+\.\d+  at position i, 0 if none
IndianAmountMinLen(s, i) ==
  LET Length(runs) == IF runs.ok THEN runs.head + 1 ELSE 0
  IN Length(IndianAmountRuns(s, i))

\* length of the shortest match of  \d+\.\d+  at position i, 0 if none
DecimalMinLen(s, i) ==
  LET a == RunLen(s, i, DigitChars)
  IN IF a >= 1 /\ At(s, i + a) = "." /\ At(s, i + a + 1) \in DigitChars
       THEN a + 2 ELSE 0

\* re.search(r'\d+,\d+,\d+\.\d+', s)
IndianAmountSearch(s) == \E i \in 1..Len(s) : IndianAmountLen(s, i) > 0

RECURSIVE IndianAmountFindall(_, _)
\* re.findall(r'\d+,\d+,\d+\.\d+', s), scanning from position i
IndianAmountFindall(s, i) ==
  LET Match(k, n) == <<SubSeq(s, k, k + n - 1)>> \o IndianAmountFindall(s, k + n)
      Leftmost(k) == Match(k, IndianAmountLen(s, k))
      From(hits) == IF hits = {} THEN <<>> ELSE Leftmost(Least(hits))
  IN From({k \in i..Len(s) : IndianAmountLen(s, k) > 0})

\* re.search(r'\d+,\d+,\d+\.\d+.*\d+\.\d+.*\d+,\d+,\d+\.\d+', line), lines 684 and
\* 805, on a text without line breaks: an amount, later a decimal number,
\* later an amount
FinancialDataSearch(line) ==
  LET Search(amount, decimal) ==
        \E i \in 1..Len(line) :
          /\ amount[i] > 0
          /\ \E j \in (i + amount[i])..Len(line) :
               /\ decimal[j] > 0
               /\ \E k \in (j + decimal[j])..Len(line) : amount[k] > 0
  IN Search([i \in 1..Len(line) |-> IndianAmountMinLen(line, i)],
            [i \in 1..Len(line) |-> DecimalMinLen(line, i)])

\* lines 808-819
YesBank_classify_asset_type(category, fund_name) ==
  IF \/ Contains(category, "Index") \/ Contains(str_upper(fund_name), "INDEX")
     \/ Contains(category, "ETF") THEN "Index Funds/ETFs"
  ELSE IF Contains(category, "Equity") THEN "Equity Mutual Funds"
  ELSE IF Contains(category, "Debt") THEN "Debt Mutual Funds"
  ELSE IF Contains(category, "Hybrid") THEN "Hybrid Mutual Funds"
  ELSE "Mutual Funds"

RECURSIVE WordsBeforeAmount(_)
\* lines 688-694: the words of the line before the first word that starts with an amount
WordsBeforeAmount(words) ==
  IF words = <<>> \/ IndianAmountLen(Head(words), 1) > 0 THEN <<>>
  ELSE <<Head(words)>> \o WordsBeforeAmount(Tail(words))

RECURSIVE YesBankFundLines(_, _)
\* lines 682-700: fund_name_lines and financial_data ("" for None) after the
\* walk over the lines of a fund text
YesBankFundLines(lines, fund_name_lines) ==
  IF lines = <<>>
    THEN [fund_name_lines |-> fund_name_lines, financial_data |-> ""]
  ELSE IF FinancialDataSearch(Head(lines))
    THEN [fund_name_lines |-> fund_name_lines \o WordsBeforeAmount(str_split(Head(lines))),
          financial_data |-> Head(lines)]
  ELSE YesBankFundLines(Tail(lines), Append(fund_name_lines, str_strip(Head(lines))))

\* the cell table[row_idx][0], None where the table has no such row or the row no cell
FirstCell(table, row_idx) ==
  IF Len(table) > row_idx /\ table[row_idx + 1] # <<>>
    THEN Cell(table[row_idx + 1], 0) ELSE None

\* lines 672-715 for one row_idx: parsed is TRUE where financial_data was found
\* (fund_name is then assigned), funds the entries appended to individual_funds
YesBankFundRow(table, row_idx) ==
  LET unparsed == [parsed |-> FALSE, fund_name |-> "", funds |-> <<>>]
      Fund(fund_name, financial_data, numbers) ==
        [parsed |-> TRUE, fund_name |-> fund_name,
         funds |-> IF Len(numbers) >= 2
                     THEN <<[name |-> fund_name,
                             investment |-> clean_currency_value(numbers[1]),
                             current |-> clean_currency_value(numbers[2]),
                             raw_data |-> financial_data]>>
                     ELSE <<>>]
      Walked(walk) ==
        IF walk.financial_data # ""
          THEN Fund(str_strip(str_join(walk.fund_name_lines, " ")),
                    walk.financial_data,
                    IndianAmountFindall(walk.financial_data, 1))
          ELSE unparsed
      Text(fund_text) ==
        IF fund_text # "" /\ IndianAmountSearch(fund_text)
          THEN Walked(YesBankFundLines(str_split_on(fund_text, "\n"), <<>>))
          ELSE unparsed
  IN Text(CellText(FirstCell(table, row_idx)))

RECURSIVE YesBankFunds(_, _, _, _)
\* lines 718-741: the holdings of individual_funds
YesBankFunds(holdings, individual_funds, category, report_date) ==
  IF individual_funds = <<>> THEN holdings
  ELSE LET Emit(fund) ==
             IF fund.investment > Amount(1000) /\ fund.current > Amount(1000)
               THEN Append(holdings,
                      [standard_schema EXCEPT
                         !.manager_name = "Yes Bank",
                         !.asset_type = YesBank_classify_asset_type(category, fund.name),
                         !.asset_name = fund.name,
                         !.value_as_of_date = report_date,
                         !.current_investment_value = fund.investment,
                         !.current_market_value = fund.current,
                         !.pl_amount = fund.current - fund.investment,
                         !.pl_percentage =
                            IF fund.investment > 0
                              THEN Percentage(fund.current - fund.investment, fund.investment)
                              ELSE 0,
                         !.raw_data = [category |-> category,
                                       raw_financial_data |-> fund.raw_data]])
               ELSE holdings
       IN YesBankFunds(Emit(Head(individual_funds)),
                       Tail(individual_funds), category, report_date)

RECURSIVE LinesBeforeAmount(_)
\* lines 749-755: the lines of the text before the first line that holds an amount
LinesBeforeAmount(lines) ==
  IF lines = <<>> \/ IndianAmountSearch(Head(lines)) THEN <<>>
  ELSE <<str_strip(Head(lines))>> \o LinesBeforeAmount(Tail(lines))

\* lines 642-793: one table of a page
YesBankTable(holdings, table, report_date) ==
  LET has_fund_names ==
        \E i \in 1..Len(table) :
           /\ table[i] # <<>> /\ Truthy(table[i][1])
           /\ ContainsAny(str_upper(str(table[i][1])), {"FUND", "SCHEME", "PLAN", "INDEX"})
      Emit(category, fund_name, investment_str, current_value_str,
           investment_amount, current_value) ==
        IF /\ investment_amount > Amount(1000) /\ current_value > Amount(1000)
           /\ fund_name # ""
          THEN Append(holdings,
                 [standard_schema EXCEPT
                    !.manager_name = "Yes Bank",
                    !.asset_type = YesBank_classify_asset_type(category, fund_name),
                    !.asset_name = fund_name,
                    !.value_as_of_date = report_date,
                    !.current_investment_value = investment_amount,
                    !.current_market_value = current_value,
                    !.pl_amount = current_value - investment_amount,
                    !.pl_percentage =
                       IF investment_amount > 0
                         THEN Percentage(current_value - investment_amount, investment_amount)
                         ELSE 0,
                    !.raw_data = [category |-> category,
                                  investment_str |-> investment_str,
                                  current_value_str |-> current_value_str]])
          ELSE holdings
      Simple(category, fund_name, investment_str, current_value_str) ==
        Emit(category, fund_name, investment_str, current_value_str,
             clean_currency_value(investment_str), clean_currency_value(current_value_str))
      \* loop_fund_name: fund_name as the loop of line 671 leaves it
      Funds(category, individual_funds, loop_fund_name) ==
        IF individual_funds # <<>>
          THEN YesBankFunds(holdings, individual_funds, category, report_date)
        ELSE IF Len(table) >= 3 /\ Len(table[3]) >= 4
          THEN Simple(category,
                      IF Truthy(FirstCell(table, 1))
                        THEN str_strip(str_join(LinesBeforeAmount(
                                str_split_on(CellText(FirstCell(table, 1)), "\n")), " "))
                        ELSE loop_fund_name,
                      IF Truthy(Cell(table[3], 1)) THEN str(Cell(table[3], 1)) ELSE "",
                      IF Truthy(Cell(table[3], 3)) THEN str(Cell(table[3], 3)) ELSE "")
        ELSE holdings
      Rows(category, first, second) ==
        Funds(category, first.funds \o second.funds,
              IF second.parsed THEN second.fund_name
              ELSE IF first.parsed THEN first.fund_name ELSE "")
  IN IF Len(table) < 2 \/ ~has_fund_names THEN holdings
     ELSE Rows(CellText(FirstCell(table, 0)),
               YesBankFundRow(table, 1), YesBankFundRow(table, 2))

\* line 611: the pages before the sixth are skipped
YesBankFirstPage == 5

\* str.count(c) for a character c
str_count(s, c) == Cardinality({i \in 1..Len(s) : Ch(s, i) = c})

RECURSIVE YesBankPageTables(_, _, _)
\* lines 642-645: for table in tables, tables of fewer than two rows skipped
YesBankPageTables(holdings, tables, report_date) ==
  IF tables = <<>> THEN holdings
  ELSE LET Visited(table) ==
             IF Len(table) < 2 THEN holdings ELSE YesBankTable(holdings, table, report_date)
       IN YesBankPageTables(Visited(Head(tables)), Tail(tables), report_date)

\* lines 607-642: one page of the report; page_num counted from 0
YesBankPage(holdings, page_num, page, report_date) ==
  LET is_summary_only ==
        /\ Contains(page.text, "Grand Total")
        /\ ~Contains(page.text, "Category/")
        /\ Len(str_split_on(page.text, "\n")) < 15
        /\ str_count(page.text, ",") < 10
      Read(upper) ==
        /\ page_num >= YesBankFirstPage
        /\ \/ ContainsAny(upper, {"FUND", "SCHEME", "PLAN", "EQUITY", "DEBT", "INDEX",
                                  "GROWTH", "DIVIDEND"})
           \/ ContainsAny(upper, {"PRUDENTIAL", "FLEXICAP", "MULTICAP", "MIDCAP", "NIFTY",
                                  "INDEX"})
        /\ ~is_summary_only
  IN IF Read(str_upper(page.text))
       THEN YesBankPageTables(holdings, page.tables, report_date)
       ELSE holdings

RECURSIVE YesBankPages(_, _, _, _)
\* line 607: for page_num, page in enumerate(pdf.pages)
YesBankPages(holdings, pages, page_num, report_date) ==
  IF pages = <<>> THEN holdings
  ELSE YesBankPages(YesBankPage(holdings, page_num, Head(pages), report_date),
                    Tail(pages), page_num + 1, report_date)

\* lines 597-799 on a report with these pages
YesBank_extract(pages) == YesBankPages(<<>>, pages, 0, "2025-08-31")

\* a classifier that tests for equity before it tests for unlisted and
\* managed accounts is
IIFL_classify_asset_type_equity_first(instrument_name, text_context) ==
  LET Classified(instrument_upper, context_upper) ==
        IF Contains(instrument_upper, "AIF") \/ Contains(context_upper, "AIF") THEN "AIF"
        ELSE IF Contains(context_upper, "EQUITY") \/ Contains(instrument_upper, "EQUITY")
          THEN "Direct Equity"
        ELSE IF Contains(context_upper, "UNLISTED") \/ Contains(instrument_upper, "UNLISTED")
          THEN "Unlisted Equity"
        ELSE IF \/ Contains(context_upper, "MANAGED ACCOUNTS")
                \/ Contains(instrument_upper, "DIVERSIFIED ALPHA") THEN "AIF"
        ELSE IF Contains(context_upper, "DEBT") \/ Contains(instrument_upper, "BOND")
          THEN "Debt/Bonds"
        ELSE "Other"
  IN Classified(str_upper(instrument_name), str_upper(text_context))

(***************************************************************************)
(* IIFL 360 One (lines 821-1047).                                          *)
(***************************************************************************)
\* lines 845-861
IIFL_classify_asset_type(instrument_name, text_context) ==
  LET Classified(instrument_upper, context_upper) ==
        IF Contains(instrument_upper, "AIF") \/ Contains(context_upper, "AIF") THEN "AIF"
        ELSE IF Contains(context_upper, "UNLISTED") \/ Contains(instrument_upper, "UNLISTED")
          THEN "Unlisted Equity"
        ELSE IF \/ Contains(context_upper, "MANAGED ACCOUNTS")
                \/ Contains(instrument_upper, "DIVERSIFIED ALPHA") THEN "AIF"
        ELSE IF Contains(context_upper, "EQUITY") \/ Contains(instrument_upper, "EQUITY")
          THEN "Direct Equity"
        ELSE IF Contains(context_upper, "DEBT") \/ Contains(instrument_upper, "BOND")
          THEN "Debt/Bonds"
        ELSE "Other"
  IN Classified(str_upper(instrument_name), str_upper(text_context))

\* re.match(r'^[\d,]+\.?\d*$', part)
IsNumberPart(part) ==
  LET a == RunLen(part, 1, DigitChars \cup {","})
      rest == Drop(part, a)
  IN /\ a >= 1
     /\ \/ rest = ""
        \/ Ch(rest, 1) = "." /\ RunLen(rest, 2, DigitChars) = Len(rest) - 1

\* re.match(r'^\d{2}-\w{3}-\d{2}$', part)
IsDashDatePart(part) ==
  /\ Len(part) = 9
  /\ RunLen(part, 1, DigitChars) = 2
  /\ Ch(part, 3) = "-"
  /\ \A k \in 4..6 : Ch(part, k) \in WordChars
  /\ Ch(part, 7) = "-"
  /\ RunLen(part, 8, DigitChars) = 2

RECURSIVE RunLenBack(_, _, _)
\* number of consecutive characters of s, from position i backwards, that are in set
RunLenBack(s, i, set) ==
  IF i >= 1 /\ Ch(s, i) \in set THEN 1 + RunLenBack(s, i - 1, set) ELSE 0

\* re.search(r'[\d,]+\.?\d*\s*%', s)
PercentSearch(s) ==
  \E q \in 1..Len(s) :
    /\ Ch(s, q) = "%"
    /\ LET p == q - 1 - RunLenBack(s, q - 1, SpaceChars)
       IN \/ At(s, p) \in DigitChars \cup {","}
          \/ At(s, p) = "." /\ At(s, p - 1) \in DigitChars \cup {","}

RECURSIVE IIFLNumericValues(_)
\* lines 941-949: the positive values of the number parts of the line
IIFLNumericValues(parts) ==
  IF parts = <<>> THEN <<>>
  ELSE LET Positive(value) == IF value > 0 THEN <<value>> ELSE <<>>
           Part(part) ==
             IF IsNumberPart(part) THEN Positive(clean_currency_value(part)) ELSE <<>>
       IN Part(Head(parts)) \o IIFLNumericValues(Tail(parts))

\* lines 950-953: the parts of the line that belong to the instrument name
IIFLNameParts(parts) ==
  SelectSeq(parts, LAMBDA part : /\ ~IsNumberPart(part)
                                 /\ ~Contains(part, "%")
                                 /\ ~IsDashDatePart(part))

RECURSIVE IIFLContinuation(_, _, _)
\* lines 959-977: the instrument name after the look-ahead over the lines that
\* follow, of which at most budget are read
IIFLContinuation(instrument_name, following, budget) ==
  IF following = <<>> \/ budget = 0 THEN instrument_name
  ELSE LET Next_line(next_line, upper) ==
             IF /\ next_line # ""
                /\ ContainsAny(upper, {"FUND", "MANAGER", "ALPHA", "CLASS", "AIF",
                                       "CATEGORY", "LIMITED", "PRIVATE"})
               THEN IIFLContinuation(
                      IF ~PercentSearch(next_line) /\ Len(next_line) > 3
                        THEN instrument_name \o " " \o next_line ELSE instrument_name,
                      Tail(following), budget - 1)
             ELSE IF (next_line # "" /\ Contains(upper, "BSE")) \/ Contains(upper, "INDEX")
               THEN IIFLContinuation(instrument_name \o " " \o next_line,
                                     Tail(following), budget - 1)
             ELSE IF \/ next_line = ""
                     \/ ContainsAny(upper, {"TOTAL", "UNLISTED", "MANAGED", "GAIN/LOSS", "PRICE"})
               THEN instrument_name
             ELSE IIFLContinuation(instrument_name, Tail(following), budget - 1)
       IN Next_line(str_strip(Head(following)), str_upper(str_strip(Head(following))))

\* lines 919-1018: one line of the page text, with the lines that follow it
IIFLLine(holdings, text_line, following, current_category, report_date) ==
  LET Emit(line, numeric_values, instrument_name, name, holding_cost, current_value) ==
        IF /\ holding_cost > Amount(1000) /\ current_value > Amount(1000)
           /\ instrument_name # ""
          THEN Append(holdings,
                 [standard_schema EXCEPT
                    !.manager_name = "IIFL 360 One",
                    !.asset_type = IIFL_classify_asset_type(instrument_name, current_category),
                    !.asset_name = SubSeq(name, 1, Min(100, Len(name))),
                    !.value_as_of_date = report_date,
                    !.current_investment_value = holding_cost,
                    !.current_market_value = current_value,
                    !.pl_amount = current_value - holding_cost,
                    !.pl_percentage =
                       IF holding_cost > 0
                         THEN Percentage(current_value - holding_cost, holding_cost)
                         ELSE 0,
                    !.raw_data = [category |-> current_category,
                                  numeric_values |-> numeric_values, raw_line |-> line]])
          ELSE holdings
      Sized(line, numeric_values, instrument_name, large_amounts) ==
        Emit(line, numeric_values, instrument_name, str_strip(instrument_name),
             IF Len(large_amounts) >= 2 THEN large_amounts[1] ELSE 0,
             IF Len(large_amounts) >= 2 THEN large_amounts[2] ELSE 0)
      Valued(line, parts, numeric_values) ==
        IF Len(numeric_values) < 3 THEN holdings
        ELSE Sized(line, numeric_values,
                   IIFLContinuation(str_join(IIFLNameParts(parts), " "), following, 9),
                   SelectSeq(numeric_values, LAMBDA v : v > Amount(100000)))
      Instrument(line, parts) == Valued(line, parts, IIFLNumericValues(parts))
      Line(line, upper) ==
        IF ContainsAny(upper, {"MANAGED ACCOUNTS EQUITY", "UNLISTED EQUITY",
                               "DIRECT EQUITY", "DEBT"}) THEN holdings
        ELSE IF ~(line # "" /\ ContainsAny(upper,
                     {"ABAKKUS", "DIVERSIFIED", "NATIONAL STOCK EXCHANGE", "FUND"}))
          THEN holdings
        ELSE Instrument(line, str_split(line))
  IN Line(str_strip(text_line), str_upper(str_strip(text_line)))

(***************************************************************************)
(* Kotak (lines 1049-1388).                                                *)
(***************************************************************************)
RECURSIVE str_remove(_, _)
\* re.sub of the one-character class [set] by ''
str_remove(s, set) ==
  IF s = "" THEN ""
  ELSE (IF Ch(s, 1) \in set THEN "" ELSE Ch(s, 1)) \o str_remove(Drop(s, 1), set)

\* lines 1266-1272
Kotak_is_numeric_string(s) ==
  LET Numeric(cleaned) == s # "" /\ str_isdigit(str_remove(cleaned, {"."})) /\ Len(cleaned) > 2
  IN Numeric(str_remove(s, {",", "₹", "-"} \cup SpaceChars))

\* any(self._is_numeric_string(str(cell)) for cell in cells if cell)
AnyNumericCell(cells) ==
  \E i \in DOMAIN cells : Truthy(cells[i]) /\ Kotak_is_numeric_string(str(cells[i]))

\* lines 1363-1379
Kotak_classify_asset_type(category, instrument_name) ==
  LET Classified(category_upper, instrument_upper) ==
        IF Contains(instrument_upper, "AIF") \/ Contains(instrument_upper, "CLASS A1")
          THEN "AIF"
        ELSE IF Contains(category_upper, "MUTUAL FUNDS") \/ Contains(instrument_upper, "FUND")
          THEN "Mutual Funds"
        ELSE IF \/ Contains(category_upper, "BONDS") \/ Contains(instrument_upper, "NCD")
                \/ Contains(instrument_upper, "BD") THEN "Bonds"
        ELSE IF Contains(category_upper, "DIRECT EQUITY") \/ Contains(instrument_upper, "LTD")
          THEN "Direct Equity"
        ELSE IF Contains(category_upper, "BANK") \/ Contains(category_upper, "CASH")
          THEN "Cash/Bank"
        ELSE "Other"
  IN Classified(str_upper(category), str_upper(instrument_name))

RECURSIVE ContainsInOrder(_, _)
\* re.search of  words[1].*words[2].* ...  on a text without line breaks
ContainsInOrder(s, words) ==
  IF words = <<>> THEN TRUE
  ELSE LET hits == {i \in 1..(Len(s) + 1) : StartsWithAt(s, i, Head(words))}
       IN /\ hits # {}
          /\ ContainsInOrder(Drop(s, Least(hits) + Len(Head(words)) - 1), Tail(words))

\* lines 1055-1062
duplicate_patterns ==
  <<[pattern |-> <<"ALTACURA", "AI", "ABSOLUTE", "RETURN", "FUND">>, manager |-> "Client Associates"],
    [pattern |-> <<"ASK", "GROWTH", "INDIA", "FUND">>, manager |-> "Client Associates"],
    [pattern |-> <<"WHITE", "OAK", "INDIA", "EQUITY", "FUND">>, manager |-> "Client Associates"],
    [pattern |-> <<"ACCURACAP", "ALPHA">>, manager |-> "Client Associates"],
    [pattern |-> <<"WHITE", "SPACE", "ALPHA", "FUND">>, manager |-> "Client Associates"]>>

RECURSIVE Kotak_check_for_duplicates_from(_, _)
\* lines 1381-1388, from pattern k on
Kotak_check_for_duplicates_from(instrument_name, k) ==
  IF k > Len(duplicate_patterns) THEN <<>>
  ELSE (IF ContainsInOrder(str_upper(instrument_name), duplicate_patterns[k].pattern)
          THEN <<duplicate_patterns[k].manager>> ELSE <<>>)
         \o Kotak_check_for_duplicates_from(instrument_name, k + 1)

Kotak_check_for_duplicates(instrument_name) ==
  Kotak_check_for_duplicates_from(instrument_name, 1)

RECURSIVE KotakScan(_, _, _)
\* lines 1282-1290: the scan of the cells from index i on
KotakScan(row, i, found) ==
  IF i >= Len(row) THEN found
  ELSE LET Scanned(significant, value) ==
             IF significant /\ i >= 2 /\ found.holding_cost = 0
               THEN [found EXCEPT !.holding_cost = value]
             ELSE IF significant /\ i >= 4 /\ found.market_value = 0
               THEN [found EXCEPT !.market_value = value]
             ELSE found
           Value(cell, value) == Scanned(Truthy(cell) /\ value > Amount(10000), value)
       IN KotakScan(row, i + 1, Value(Cell(row, i), clean_currency_value(Cell(row, i))))

RECURSIVE KotakAmounts(_)
\* lines 1294-1299
KotakAmounts(row) ==
  IF row = <<>> THEN <<>>
  ELSE LET Significant(cell, value) ==
             IF Truthy(cell) /\ value > Amount(10000) THEN <<value>> ELSE <<>>
       IN Significant(Head(row), clean_currency_value(Head(row))) \o KotakAmounts(Tail(row))

\* re.match of  \d{1,2}S\d{1,2}S\d{2,4}  for the separator S
IsDayMonthYearPrefix(s, sep) ==
  LET a == RunLen(s, 1, DigitChars)
      b == RunLen(s, a + 2, DigitChars)
  IN /\ a \in {1, 2} /\ At(s, a + 1) = sep
     /\ b \in {1, 2} /\ At(s, a + b + 2) = sep
     /\ RunLen(s, a + b + 3, DigitChars) >= 2

\* lines 1319-1334
KotakFallbackDate(row, purchase_date_col) ==
  IF /\ purchase_date_col >= 0 /\ purchase_date_col < Len(row)
     /\ Truthy(Cell(row, purchase_date_col))
    THEN LET Date(cell_str) ==
               IF \E sep \in {"/", "-", "."} : IsDayMonthYearPrefix(cell_str, sep)
                 THEN parse_date(cell_str) ELSE ""
         IN Date(str_strip(str(Cell(row, purchase_date_col))))
    ELSE ""

\* the value None of a holding that was not built
NoHolding == [manager_name |-> None]

\* a policy that values no record at its invested value is
KotakFixedValue_never(asset_type) == FALSE

\* line 1337: the records valued at their invested value, if asset_type == 'Bonds'
KotakFixedValue(asset_type) == asset_type = "Bonds"

\* lines 1274-1361
Kotak_extract_holding_from_row(instrument_name, row, category, report_date, purchase_date_col, investment_date) ==
  LET Built(holding_cost, market_value, asset_type) ==
        IF holding_cost > 0 /\ market_value > 0
          THEN [standard_schema EXCEPT
                  !.manager_name = "Kotak",
                  !.asset_type = asset_type,
                  !.asset_name = str_strip(instrument_name),
                  !.value_as_of_date = report_date,
                  !.current_investment_value = holding_cost,
                  !.investment_date = IF investment_date # "" THEN investment_date
                                      ELSE KotakFallbackDate(row, purchase_date_col),
                  !.current_market_value =
                     IF KotakFixedValue(asset_type) THEN holding_cost ELSE market_value,
                  !.pl_amount = IF KotakFixedValue(asset_type) THEN 0 ELSE market_value - holding_cost,
                  !.pl_percentage =
                     IF KotakFixedValue(asset_type) THEN 0
                     ELSE IF holding_cost > 0
                       THEN Percentage(market_value - holding_cost, holding_cost)
                     ELSE 0,
                  !.raw_data = [category |-> category, raw_row |-> row,
                                instrument_name |-> instrument_name]]
               @@ [potential_duplicate |-> Kotak_check_for_duplicates(instrument_name)]
          ELSE NoHolding
      Amounts(scanned, amounts, retry) ==
        Built(IF retry /\ Len(amounts) >= 2 THEN amounts[1] ELSE scanned.holding_cost,
              IF retry /\ Len(amounts) >= 2 THEN amounts[2] ELSE scanned.market_value,
              Kotak_classify_asset_type(category, instrument_name))
      Scanned(scanned) ==
        Amounts(scanned, KotakAmounts(row),
                scanned.holding_cost = 0 \/ scanned.market_value = 0)
  IN Scanned(KotakScan(row, 0, [holding_cost |-> 0, market_value |-> 0]))

\* lines 1149-1213: one row of a holdings table, with the row that follows it
\* (<<>> at the end of the table)
KotakRow(holdings, row, next_row, current_category, report_date, purchase_date_col, investment_date) ==
  LET Emit(holding) ==
        IF holding # NoHolding /\ holding.current_market_value > Amount(1000)
          THEN Append(holdings, holding) ELSE holdings
      is_transaction_ref(instrument_name, instrument_upper) ==
        \/ StartsWithAt(instrument_upper, 1, "INE0TLC")
        \/ Len(instrument_name) < 15 /\ StartsWithAt(instrument_upper, 1, "INE")
      Instrument(instrument_name, instrument_upper, numeric_row) ==
        IF \/ instrument_name = ""
           \/ ContainsAny(instrument_name,
                          {"Instrument Name", "Bal. No. Of", "Total", "Category"})
           \/ instrument_name = "-" THEN holdings
        ELSE IF ContainsAny(instrument_upper,
                  {"MUTUAL FUNDS", "DIRECT EQUITY", "OTHER PRODUCTS", "BONDS", "BANK ACCOUNTS"})
          THEN holdings
        ELSE IF \/ Kotak_is_numeric_string(instrument_name)
                \/ Len(str_remove(instrument_name, {",", "."})) < 5 THEN holdings
        ELSE IF /\ numeric_row # <<>>
                /\ Len(instrument_name) > 10
                /\ ~is_transaction_ref(instrument_name, instrument_upper)
          THEN Emit(Kotak_extract_holding_from_row(instrument_name, numeric_row,
                      current_category, report_date, purchase_date_col, investment_date))
        ELSE holdings
      Named(instrument_name) ==
        Instrument(instrument_name, str_upper(instrument_name),
                   IF AnyNumericCell(Tail(row)) THEN row
                   ELSE IF AnyNumericCell(next_row) THEN next_row
                   ELSE <<>>)
  IN IF row = <<>> THEN holdings ELSE Named(CellText(Cell(row, 0)))

(***************************************************************************)
(* Motilal Oswal (lines 1391-1599).                                        *)
(***************************************************************************)
\* lines 1430-1468: one data row of a table that has an ISIN header
MotilalEquityRow(holdings, row, report_date) ==
  LET Emit(sector, security, isin, investment, market_value) ==
        IF market_value > 0
          THEN Append(holdings,
                 [standard_schema EXCEPT
                    !.manager_name = "Motilal Oswal",
                    !.asset_type = "Direct Equity",
                    !.asset_name = security,
                    !.value_as_of_date = report_date,
                    !.current_investment_value = investment,
                    !.current_market_value = market_value,
                    !.pl_amount = market_value - investment,
                    !.pl_percentage =
                       IF investment > 0
                         THEN Percentage(market_value - investment, investment)
                         ELSE 0,
                    !.raw_data = [sector |-> sector, isin |-> isin, page |-> "Direct Equity"]])
          ELSE holdings
      Named(sector, security, isin) ==
        IF \/ security = "" \/ Contains(security, "Total") \/ isin = ""
           \/ security = "-" THEN holdings
        ELSE Emit(sector, security, isin,
                  IF Len(row) > 11 THEN clean_currency_value(Cell(row, 11)) ELSE 0,
                  IF Len(row) > 13 THEN clean_currency_value(Cell(row, 13)) ELSE 0)
  IN IF Len(row) < 10 THEN holdings
     ELSE Named(CellText(Cell(row, 0)), CellText(Cell(row, 1)), CellText(Cell(row, 2)))

\* lines 1490-1528: one data row of a table that has an Instrument header
MotilalAIFRow(holdings, row, report_date) ==
  LET Emit(category, instrument, investment, market_value) ==
        IF market_value > 0
          THEN Append(holdings,
                 [standard_schema EXCEPT
                    !.manager_name = "Motilal Oswal",
                    !.asset_type = "AIF",
                    !.asset_name = instrument,
                    !.value_as_of_date = report_date,
                    !.current_investment_value = investment,
                    !.current_market_value = market_value,
                    !.pl_amount = market_value - investment,
                    !.pl_percentage =
                       IF investment > 0
                         THEN Percentage(market_value - investment, investment)
                         ELSE 0,
                    !.raw_data = [category |-> category,
                                  xirr |-> IF Len(row) > 11
                                             THEN clean_currency_value(Cell(row, 11))
                                             ELSE 0,
                                  page |-> "AIF"]])
          ELSE holdings
      Named(category, instrument, asset_class) ==
        IF \/ instrument = "" \/ Contains(category, "Total") \/ asset_class = ""
           \/ instrument = "-" THEN holdings
        ELSE Emit(category, instrument,
                  clean_currency_value(Cell(row, 5)), clean_currency_value(Cell(row, 6)))
  IN IF Len(row) < 8 THEN holdings
     ELSE Named(CellText(Cell(row, 0)), CellText(Cell(row, 1)), CellText(Cell(row, 3)))

(***************************************************************************)
(* The driver's use of the engine: one call on the extracted holdings,     *)
(* and a second call on the list the first one returned.                   *)
(***************************************************************************)
VARIABLES
  pc,                  \* "start", "deduplicated", "again"
  all_holdings,        \* the list passed to remove_duplicates
  clean_holdings,      \* local clean_holdings at the return of the first call
  removed_duplicates,  \* local removed_duplicates at the return of the first call
  returned,            \* the tuple of values the first call returned
  again,               \* the locals at the return of the second call
  extractor,           \* the issuer whose extract is running, "none" outside a run
  extract_pc,          \* "opening" the document, "scanning" its pages, or "returned"
  holdings,            \* the local holdings of the running extract, then its result
  caught,              \* what the last except clause of the running extract caught
  documents,           \* main: the state of the document of each issuer
  main_pc,             \* main: the number of issuers main is done with
  invoked,             \* main: the issuers whose extract main has called
  call,                \* a call of one function or method: its name and arguments
  result,              \* what the call gave, NoResult before it is made
  cache_file,          \* exchange_rates_cache.json: missing, corrupt, or the JSON of a cache
  converters,          \* per run: whether its CurrencyConverter is constructed, and its self.cache
  now,                 \* the clock (datetime.now()), in hours
  last_call,           \* the last call of get_exchange_rate: what it found and what it did
  lookups              \* the remote lookups that gave a rate, and whether it was saved

vars == <<asset_keys, pc, all_holdings, clean_holdings, removed_duplicates, returned, again,
          extractor, extract_pc, holdings, caught, documents, main_pc, invoked,
          call, result, cache_file, converters, now, last_call, lookups>>

converter_vars == <<cache_file, converters, now, last_call, lookups>>

dedup_vars == <<asset_keys, pc, all_holdings, clean_holdings, removed_duplicates, returned, again>>

extract_vars == <<extractor, extract_pc, holdings, caught>>

main_vars == <<documents, main_pc, invoked>>

call_vars == <<call, result>>

NoCall == [op |-> "none"]

NoResult == [outcome |-> "pending"]

\* the runs of the program that share the cache file
Runs == {"first", "second"}

\* the currency pairs main asks for
Pairs == {"USD_INR", "EUR_INR"}

\* a cache maps each pair to its entry, the rate and the hour it was fetched
\* at, or to NoEntry when the pair is no key of it (a rate of 0 is never
\* stored, line 61)
NoEntry == [rate |-> 0, at |-> 0]

EmptyCache == [pair \in Pairs |-> NoEntry]

NoFile == [state |-> "missing", content |-> EmptyCache]

NoLastCall == [n |-> 0]

\* no converter is constructed
NoConverter ==
  /\ cache_file = NoFile
  /\ converters = [run \in Runs |-> [pc |-> "off", cache |-> EmptyCache]]
  /\ now = 0
  /\ last_call = NoLastCall
  /\ lookups = {}

NoLocals == [seen_assets |-> {}, clean_holdings |-> <<>>, removed_duplicates |-> <<>>]

Init ==
  /\ asset_keys = AssetKeys
  /\ pc = "start"
  /\ all_holdings \in InputLists
  /\ clean_holdings = <<>>
  /\ removed_duplicates = <<>>
  /\ returned = <<>>
  /\ again = NoLocals
  /\ extractor = "none"
  /\ extract_pc = "returned"
  /\ holdings = <<>>
  /\ caught = "none"
  /\ documents = <<>>
  /\ main_pc = 0
  /\ invoked = {}
  /\ call = NoCall
  /\ result = NoResult
  /\ NoConverter

\* main, line 1835: clean_holdings = remove_duplicates(all_holdings)
Deduplicate ==
  /\ pc = "start"
  /\ LET st == remove_duplicates_locals(all_holdings)
     IN /\ clean_holdings' = st.clean_holdings
        /\ removed_duplicates' = st.removed_duplicates
  /\ returned' = remove_duplicates(all_holdings)
  /\ pc' = "deduplicated"
  /\ UNCHANGED <<asset_keys, all_holdings, again>>
  /\ UNCHANGED <<extract_vars, main_vars, call_vars, converter_vars>>

\* remove_duplicates applied to its own output
DeduplicateAgain ==
  /\ pc = "deduplicated"
  /\ again' = remove_duplicates_locals(returned[1])
  /\ pc' = "again"
  /\ UNCHANGED <<asset_keys, all_holdings, clean_holdings, removed_duplicates, returned>>
  /\ UNCHANGED <<extract_vars, main_vars, call_vars, converter_vars>>

Next == Deduplicate \/ DeduplicateAgain

Spec == Init /\ [][Next]_vars

(***************************************************************************)
(* A run of one issuer's extract: the rows, lines and tables of the pages  *)
(* of its document are visited in any order and number (at most            *)
(* MaxEmitted holdings are collected), then the list is returned.          *)
(***************************************************************************)
\* the number of holdings one document yields
MaxEmitted == 2

\* main, lines 1754-1761: the keys of extractors
Extractors ==
  {"IND Money", "Client Associates", "Yes Bank", "Kotak", "Motilal Oswal", "IIFL 360 One"}

\* the report date of the documents (the default of lines 604 and 1071)
ReportDate == "2025-08-31"

\* rows of an IND Money holdings table: Symbol, Description, Quantity, Price,
\* Market Value, Gain, Gain %, Cost Basis (amounts in USD)
INDMoneyTables ==
  {<< <<"AAPL", "Apple Inc", "10", "150.00", mv, "", "", cb>> >> :
      mv \in {"100.00", "100.01", "1,000.00"}, cb \in {"900.00", None}}

\* the rates in hundredths a rate lookup can give: 83.00 and the fallback 83.25
\* (currency_converter.py, line 76)
ExchangeRates == {8300, 8325}

\* lines of a Client Associates page, each with the lines that follow it
ClientAssociatesLines ==
  {<<"ABC Growth Fund 15/01/2023 100 500.00 50,000 600.00 60,000 0 10,000 20.00 12.50 3.2",
     <<>>>>,
   <<"XYZ Alpha AIF 01/02/2022 100 500.00 1,000.01 600.00 1,000 0 0 0 0 0", <<>>>>,
   <<"XYZ Alpha AIF 01/02/2022 100 500.00 1,000.01 600.00 1,000.01", <<>>>>,
   <<"ABC Growth Fund 15/01/2023",
     <<"Jan-23", "100 500.00 70,000 600.00 90,000 0 20,000 28.57 15.5 4.0">>>>,
   <<"Equity", <<>>>>}

\* rows of a Client Associates table: Security, Date, ..., Total Cost (6), ...,
\* Market Value (8), ..., Total G/L (10), % G/L (11)
ClientAssociatesRows ==
  {<<name, "15/01/2023", "100", "", "500.00", "", cost, "600.00", mv, "0", gl, "20.00">> :
      name \in {"ABC Growth Fund", "XYZ Alpha AIF"},
      cost \in {"50,000", "1,000"},
      mv \in {"60,000", "1,000", "1,000.01"},
      gl \in {"10,000", "9,999", "-"}}
    \cup {<<"Equity - Total", None, "", "", "", "", "50,000", "", "60,000">>}

\* tables of a Yes Bank page: category row, fund row, data row
YesBankTables ==
  {<< <<"Equity- Flexi Cap">>,
      <<"ICICI Prudential\nFlexicap Fund 9,99,950.00 7.84 10,65,893.41 6.59">>,
      <<"x", "1", "2", "3">> >>,
   << <<"Hybrid">>,
      <<"9,99,950.00 7.84 10,65,893.41">>,
      <<"Some Plan 1,000.00 1.5 0,1,000.01 2.5 0,5,000.00">> >>}
    \cup {<< <<"Debt">>, <<"HDFC Index Fund\nDirect Plan">>, <<None, inv, "", cur>> >> :
             inv \in {"5,000.00", "1,000.00"},
             cur \in {"6,000.00", "1,000.00", "1,000.01"}}

\* lines of an IIFL page, each with the lines that follow it and the category
\* of its section
IIFLLines ==
  {<<"ABAKKUS ASSET 9,502.181 1,000,000.00 1,607,702.09 60.77% 12-Jan-23",
     <<"MANAGER LLP", "Emerging Opportunities Fund", "Total">>, "Managed Accounts Equity">>,
   <<"National Stock Exchange 100 1,00,000.00 1,00,000.01 2,50,000", <<>>, "Unlisted Equity">>,
   <<"Some Fund 50 1,00,000.01 1,00,000.02", <<"Class A">>, "">>,
   <<"Some Fund 2,000 3,000 4,000", <<>>, "">>,
   <<"DEBT", <<>>, "">>}

\* rows of a Kotak holdings table, each with the row that follows it and the
\* category of its section: Instrument Name, Qty, Avg Price, Holding Cost,
\* Price Per Unit, Market Value
KotakRows ==
  {<< <<name, "100", "500.00", cost, "600.00", mv>>, <<>>, category >> :
      name \in {"HDFC Flexi Cap Fund Growth", "Some NCD 2027 Series"},
      cost \in {"50,000", "10,000"},
      mv \in {"60,000", "10,000.01", "1,000"},
      category \in {"", "Bonds"}}
    \cup {<< <<"Reliance Industries Ltd", None, None>>,
             <<"100", "2,500", "10,001", "x", "10,000", "20,000.5">>, "Direct Equity">>,
          << <<"Direct Equity">>, <<>>, "">>}

\* rows of a Motilal Oswal equity table: Sector, Security, ISIN, ...,
\* Investment Value (11), ..., Market Value (13)
MotilalEquityRows ==
  {<<"IT", "Infosys Ltd", "INE009A01021", "", "", "", "", "", "", "", "", inv, "", mv>> :
      inv \in {"400", "50,000", "-400"}, mv \in {"500", "1,000", "1,000.01", "60,000", "-5"}}
    \cup {<<"IT", "Infosys Ltd", "INE009A01021", "", "", "", "", "", "", "", "", "400">>}

\* rows of a Motilal Oswal AIF table: Category, Instrument, ..., Asset Class (3),
\* ..., Investment (5), Market Value (6)
MotilalAIFRows ==
  {<<"AIF", "MO Growth Fund", "", "Equity", "", inv, mv, "">> :
      inv \in {"400", "50,000", "-400"}, mv \in {"500", "1,000", "1,000.01", "60,000", "-"}}
    \cup {<<"Total", "MO Growth Fund", "", "Equity", "", "400", "500", "">>}

InitExtract ==
  /\ asset_keys = <<>>
  /\ pc = "extract"
  /\ all_holdings = <<>>
  /\ clean_holdings = <<>>
  /\ removed_duplicates = <<>>
  /\ returned = <<>>
  /\ again = NoLocals
  /\ extractor \in Extractors
  /\ extract_pc = "opening"
  /\ holdings = <<>>
  /\ caught = "none"
  /\ documents = <<>>
  /\ main_pc = 0
  /\ invoked = {}
  /\ call = NoCall
  /\ result = NoResult
  /\ NoConverter

\* the extract of issuer is visiting its pages
Scanning(issuer) ==
  /\ extractor = issuer
  /\ extract_pc = "scanning"
  /\ Len(holdings) < MaxEmitted

\* INDMoneyExtractor.extract, lines 170-309, on a one-table statement
RunINDMoney ==
  /\ Scanning("IND Money")
  /\ \E table \in INDMoneyTables :
       holdings' \in INDMoneyExtract(table, ExchangeRates, ReportDate)
  /\ extract_pc' = "returned"
  /\ caught' = IF "get_usd_to_inr_rate" \in CurrencyConverterMethods THEN caught ELSE "rate"
  /\ UNCHANGED <<extractor, dedup_vars, main_vars, call_vars, converter_vars>>

\* ClientAssociatesExtractor.extract, lines 355-514
ReadClientAssociatesLine ==
  /\ Scanning("Client Associates")
  /\ \E input \in ClientAssociatesLines :
       holdings' = ClientAssociatesLine(holdings, input[1], input[2], ReportDate)
  /\ UNCHANGED <<extractor, extract_pc, caught, dedup_vars, main_vars, call_vars, converter_vars>>

\* ClientAssociatesExtractor.extract, lines 533-586
ReadClientAssociatesTableRow ==
  /\ Scanning("Client Associates")
  /\ \E row \in ClientAssociatesRows :
       holdings' = ClientAssociatesTableRow(holdings, row, ReportDate)
  /\ UNCHANGED <<extractor, extract_pc, caught, dedup_vars, main_vars, call_vars, converter_vars>>

\* YesBankExtractor.extract, lines 642-793
ReadYesBankTable ==
  /\ Scanning("Yes Bank")
  /\ \E table \in YesBankTables :
       \E collected \in {YesBankTable(holdings, table, ReportDate)} :
          /\ Len(collected) <= MaxEmitted
          /\ holdings' = collected
  /\ UNCHANGED <<extractor, extract_pc, caught, dedup_vars, main_vars, call_vars, converter_vars>>

\* IIFL360OneExtractor.extract, lines 919-1018
ReadIIFLLine ==
  /\ Scanning("IIFL 360 One")
  /\ \E input \in IIFLLines :
       holdings' = IIFLLine(holdings, input[1], input[2], input[3], ReportDate)
  /\ UNCHANGED <<extractor, extract_pc, caught, dedup_vars, main_vars, call_vars, converter_vars>>

\* KotakExtractor.extract, lines 1149-1213; the page text gives no transaction
\* dates and the table no purchase date column
ReadKotakRow ==
  /\ Scanning("Kotak")
  /\ \E input \in KotakRows :
       holdings' = KotakRow(holdings, input[1], input[2], input[3], ReportDate, 0 - 1, "")
  /\ UNCHANGED <<extractor, extract_pc, caught, dedup_vars, main_vars, call_vars, converter_vars>>

\* MotilalOswalExtractor.extract_direct_equity, lines 1430-1468, and the
\* extend of line 1585
ReadMotilalEquityRow ==
  /\ Scanning("Motilal Oswal")
  /\ \E row \in MotilalEquityRows :
       holdings' = MotilalEquityRow(holdings, row, ReportDate)
  /\ UNCHANGED <<extractor, extract_pc, caught, dedup_vars, main_vars, call_vars, converter_vars>>

\* MotilalOswalExtractor.extract_aif_holdings, lines 1490-1528, and the
\* extend of line 1592
ReadMotilalAIFRow ==
  /\ Scanning("Motilal Oswal")
  /\ \E row \in MotilalAIFRows :
       holdings' = MotilalAIFRow(holdings, row, ReportDate)
  /\ UNCHANGED <<extractor, extract_pc, caught, dedup_vars, main_vars, call_vars, converter_vars>>

\* return holdings (lines 588, 795, 1043, 1215, 1595)
ReturnHoldings ==
  /\ extractor \in Extractors \ {"IND Money"}
  /\ extract_pc = "scanning"
  /\ extract_pc' = "returned"
  /\ UNCHANGED <<extractor, holdings, caught, dedup_vars, main_vars, call_vars, converter_vars>>

\* the except clause of an extract that re-raises what it caught
ExtractHandlerReraise(collected) == [extract_pc |-> "raised", holdings |-> collected]

\* the except clause of an extract that returns what it has collected
ExtractHandlerKeep(collected) == [extract_pc |-> "returned", holdings |-> collected]

\* the except clause that closes the try around the body of every extract
\* (lines 307-309, 590-592, 797-799, 1045-1047, 1217-1219, 1597-1599):
\* print the error, return []
ExtractHandler(collected) == [extract_pc |-> "returned", holdings |-> <<>>]

\* pdfplumber.open gives the document (lines 180, 319, 602, 868, 1069, 1540)
OpenDocument ==
  /\ extractor \in Extractors
  /\ extract_pc = "opening"
  /\ extract_pc' = "scanning"
  /\ UNCHANGED <<extractor, holdings, caught, dedup_vars, main_vars, call_vars, converter_vars>>

\* pdfplumber.open raises: the file is missing, is no PDF, or the password
\* is wrong; the except clause of extract catches it
OpenFails ==
  /\ extractor \in Extractors
  /\ extract_pc = "opening"
  /\ \E handled \in {ExtractHandler(holdings)} :
        /\ extract_pc' = handled.extract_pc
        /\ holdings' = handled.holdings
  /\ caught' = "open"
  /\ UNCHANGED <<extractor, dedup_vars, main_vars, call_vars, converter_vars>>

\* a statement of the page loop outside the try of the rows raises, e.g.
\* text.upper() on a page extract_text gives None for (lines 332, 615, 884,
\* 1082, 1556): the except clause of extract catches it
PageFails ==
  /\ extractor \in Extractors \ {"IND Money"}
  /\ extract_pc = "scanning"
  /\ \E handled \in {ExtractHandler(holdings)} :
        /\ extract_pc' = handled.extract_pc
        /\ holdings' = handled.holdings
  /\ caught' = "page"
  /\ UNCHANGED <<extractor, dedup_vars, main_vars, call_vars, converter_vars>>

\* a statement in the try of a table row raises: the except clause of the
\* row (lines 584-586, 791-793, 1211-1213) prints the error and continues
RowFails ==
  /\ extractor \in {"Client Associates", "Yes Bank", "Kotak"}
  /\ extract_pc = "scanning"
  /\ caught' = "row"
  /\ UNCHANGED <<extractor, extract_pc, holdings, dedup_vars, main_vars, call_vars, converter_vars>>

NextExtract ==
  \/ OpenDocument
  \/ OpenFails
  \/ PageFails
  \/ RowFails
  \/ RunINDMoney
  \/ ReadClientAssociatesLine
  \/ ReadClientAssociatesTableRow
  \/ ReadYesBankTable
  \/ ReadIIFLLine
  \/ ReadKotakRow
  \/ ReadMotilalEquityRow
  \/ ReadMotilalAIFRow
  \/ ReturnHoldings

SpecExtract == InitExtract /\ [][NextExtract]_vars

(***************************************************************************)
(* A run of main (lines 1750-1835): the extract of each issuer whose       *)
(* document is in the data folder is called in turn and its result is      *)
(* appended to all_holdings.  remove_duplicates, which main calls next, is *)
(* the engine of Spec.                                                     *)
(***************************************************************************)
\* main, lines 1776-1830: the order in which main goes through the issuers
IssuerOrder ==
  <<"IND Money", "Client Associates", "Yes Bank", "Kotak", "Motilal Oswal", "IIFL 360 One">>

\* the document of an issuer: not in the folder, not to be opened, with a
\* page that fails to parse after its holdings page, or well formed
DocumentStates == {"absent", "unreadable", "badpage", "readable"}

\* what the pages of the statement of issuer hold: the lists extract can have
\* collected when it is done with them
DocumentHoldings(issuer) ==
  CASE issuer = "IND Money" ->
         INDMoneyExtract(<< <<"AAPL", "Apple Inc", "10", "150.00", "1,000.00", "", "", "900.00">> >>,
                         ExchangeRates, ReportDate)
    [] issuer = "Client Associates" ->
         {ClientAssociatesTableRow(<<>>,
            <<"ABC Growth Fund", "15/01/2023", "100", "", "500.00", "", "50,000", "600.00",
              "60,000", "0", "10,000", "20.00">>, ReportDate)}
    [] issuer = "Yes Bank" ->
         {YesBankTable(<<>>,
            << <<"Debt">>, <<"HDFC Index Fund\nDirect Plan">>,
               <<None, "5,000.00", "", "6,000.00">> >>, ReportDate)}
    [] issuer = "Kotak" ->
         {KotakRow(<<>>, <<"HDFC Flexi Cap Fund Growth", "100", "500.00", "50,000", "600.00", "60,000">>,
                   <<>>, "", ReportDate, 0 - 1, "")}
    [] issuer = "Motilal Oswal" ->
         {MotilalEquityRow(<<>>,
            <<"IT", "Infosys Ltd", "INE009A01021", "", "", "", "", "", "", "", "", "50,000", "",
              "60,000">>, ReportDate)}
    [] issuer = "IIFL 360 One" ->
         {IIFLLine(<<>>, "ABAKKUS ASSET 9,502.181 1,000,000.00 1,607,702.09 60.77% 12-Jan-23",
                   <<"MANAGER LLP", "Emerging Opportunities Fund", "Total">>,
                   "Managed Accounts Equity", ReportDate)}

\* extract of issuer on a document in this state: where it ends and the list
\* it gives
ExtractResults(issuer, state) ==
  LET Results(lists) ==
        IF state = "unreadable" THEN {ExtractHandler(<<>>)}
        ELSE IF state = "badpage" THEN {ExtractHandler(collected) : collected \in lists}
        ELSE {[extract_pc |-> "returned", holdings |-> collected] : collected \in lists}
  IN Results(DocumentHoldings(issuer))

InitMain ==
  /\ asset_keys = <<>>
  /\ pc = "main"
  /\ all_holdings = <<>>
  /\ clean_holdings = <<>>
  /\ removed_duplicates = <<>>
  /\ returned = <<>>
  /\ again = NoLocals
  /\ extractor = "none"
  /\ extract_pc = "returned"
  /\ holdings = <<>>
  /\ caught = "none"
  /\ documents \in [Extractors -> DocumentStates]
  /\ main_pc = 0
  /\ invoked = {}
  /\ call = NoCall
  /\ result = NoResult
  /\ NoConverter

\* the issuer main turns to next
NextIssuer == IssuerOrder[main_pc + 1]

\* main, the else branches of lines 1776-1830: find_file_by_pattern gives
\* None, main prints that the file was not found
MainFileNotFound ==
  /\ pc = "main"
  /\ main_pc < Len(IssuerOrder)
  /\ documents[NextIssuer] = "absent"
  /\ main_pc' = main_pc + 1
  /\ UNCHANGED <<documents, invoked, dedup_vars, extract_vars, call_vars, converter_vars>>

\* main, the if branches of lines 1776-1830: the call of extract, outside
\* any try, and all_holdings.extend of its result
MainExtract ==
  /\ pc = "main"
  /\ main_pc < Len(IssuerOrder)
  /\ documents[NextIssuer] # "absent"
  /\ invoked' = invoked \cup {NextIssuer}
  /\ \E extracted \in ExtractResults(NextIssuer, documents[NextIssuer]) :
        IF extracted.extract_pc = "raised"
          THEN /\ pc' = "aborted"
               /\ UNCHANGED <<main_pc, all_holdings>>
          ELSE /\ all_holdings' = all_holdings \o extracted.holdings
               /\ main_pc' = main_pc + 1
               /\ pc' = pc
  /\ UNCHANGED <<documents, asset_keys, clean_holdings, removed_duplicates, returned, again>>
  /\ UNCHANGED <<extract_vars, call_vars, converter_vars>>

NextMain == MainFileNotFound \/ MainExtract

SpecMain == InitMain /\ [][NextMain]_vars

(***************************************************************************)
(* CurrencyConverter (currency_converter.py, lines 12-114).  A cache maps  *)
(* the keys the cache file holds to its entries; an entry is a record of   *)
(* the fields the file gives it.  Rates are in hundredths; a timestamp is  *)
(* its age in hours, if it is in ISO format at all.                        *)
(***************************************************************************)
\* currency_converter.py, line 35: the default of hours
CacheHours == 24

\* currency_converter.py, lines 75-79
fallback_rates == [USD_INR |-> 8325, EUR_INR |-> 9050, GBP_INR |-> 10575]

\* a validity test that takes an entry of exactly CacheHours hours as valid is
is_cache_valid_inclusive(cache, currency) ==
  IF currency \notin cache.keys THEN [raises |-> "", valid |-> FALSE]
  ELSE [raises |-> "", valid |-> cache.entry.timestamp.hours_ago <= CacheHours]

\* currency_converter.py, lines 35-41: which exception it raises, if one, and
\* the value it returns
is_cache_valid(cache, currency) ==
  IF currency \notin cache.keys THEN [raises |-> "", valid |-> FALSE]
  ELSE IF "timestamp" \notin DOMAIN cache.entry THEN [raises |-> "KeyError", valid |-> FALSE]
  ELSE IF ~cache.entry.timestamp.iso THEN [raises |-> "ValueError", valid |-> FALSE]
  ELSE [raises |-> "", valid |-> cache.entry.timestamp.hours_ago < CacheHours]

\* an entry as line 62 writes it, for a rate fetched hours_ago hours ago
FetchedEntry(rate, hours_ago) ==
  [rate |-> rate, timestamp |-> [iso |-> TRUE, hours_ago |-> hours_ago],
   source |-> "exchangerate-api"]

\* a fallback that is written to the cache as a fetched rate is
CacheAfterFallback_stored(cache_key, after) ==
  IF cache_key \in DOMAIN fallback_rates
    THEN [keys |-> {cache_key}, entry |-> FetchedEntry(fallback_rates[cache_key], 0)]
    ELSE after

\* currency_converter.py, lines 74-84: the cache when the fallback is
\* returned: no statement of these lines writes to it
CacheAfterFallback(cache_key, after) == after

\* currency_converter.py, lines 43-84: the call on a cache with at most one
\* key, with the response requests.get gives and a cache file that can be
\* written or not; the outcome, the rate returned, the cache after it,
\* the rate fetched (0 if none), and whether requests.get was called and the
\* cache file written
get_exchange_rate(cache, from_currency, to_currency, response, writable) ==
  LET Ends(outcome, rate, after, fetched, looked_up, saved) ==
        [outcome |-> outcome, rate |-> rate, cache |-> after,
         fetched |-> fetched, looked_up |-> looked_up, saved |-> saved]
      Fallback(cache_key, after, fetched) ==
        IF cache_key \in DOMAIN fallback_rates
          THEN Ends("returns", fallback_rates[cache_key],
                    CacheAfterFallback(cache_key, after), fetched, TRUE, FALSE)
          ELSE Ends("returns None", 0, CacheAfterFallback(cache_key, after),
                    fetched, TRUE, FALSE)
      Fetched(cache_key, rate) ==
        LET Saved(after) ==
              IF writable THEN Ends("returns", rate, after, rate, TRUE, TRUE)
              ELSE Fallback(cache_key, after, rate)
        IN Saved([keys |-> {cache_key}, entry |-> FetchedEntry(rate, 0)])
      Fetch(cache_key) ==
        IF response.kind = "rates" /\ to_currency \in response.keys /\ response.rate # 0
          THEN Fetched(cache_key, response.rate)
          ELSE Fallback(cache_key, cache, 0)
      Lookup(cache_key, validity) ==
        IF validity.raises # "" THEN Ends("raises", 0, cache, 0, FALSE, FALSE)
        ELSE IF validity.valid
          THEN IF "rate" \in DOMAIN cache.entry
                 THEN Ends("returns", cache.entry.rate, cache, 0, FALSE, FALSE)
                 ELSE Ends("raises", 0, cache, 0, FALSE, FALSE)
        ELSE Fetch(cache_key)
      Keyed(cache_key) == Lookup(cache_key, is_cache_valid(cache, cache_key))
  IN Keyed(from_currency \o "_" \o to_currency)

(***************************************************************************)
(* Calls of single functions and methods on the inputs they can be given.  *)
(***************************************************************************)
\* entries of a cache file: younger than a day, older, without timestamp,
\* with a timestamp that is no ISO date, without rate
CacheEntries ==
  {[rate |-> 8300, timestamp |-> [iso |-> TRUE, hours_ago |-> hours]] : hours \in {1, 30}}
    \cup {[rate |-> 8300],
          [rate |-> 8300, timestamp |-> [iso |-> FALSE, hours_ago |-> 0]],
          [timestamp |-> [iso |-> TRUE, hours_ago |-> 1]]}

\* caches: empty, or with an entry for USD_INR
Caches ==
  {[keys |-> {}, entry |-> [rate |-> 0]]}
    \cup {[keys |-> {"USD_INR"}, entry |-> entry] : entry \in CacheEntries}

\* what requests.get and the lines after it (61-66) come to: a timeout, a
\* status other than 200, a payload that is no JSON object with rates, and
\* rates that lack the currency, give 0 for it, or give a rate
Responses ==
  {[kind |-> kind, keys |-> {}, rate |-> 0] : kind \in {"timeout", "status", "malformed"}}
    \cup {[kind |-> "rates", keys |-> {}, rate |-> 0],
          [kind |-> "rates", keys |-> {"INR", "JPY"}, rate |-> 0],
          [kind |-> "rates", keys |-> {"INR", "JPY"}, rate |-> 8450]}

GetExchangeRateCalls ==
  {[op |-> "get_exchange_rate", cache |-> cache, from_currency |-> from_currency,
    to_currency |-> to_currency, response |-> response, writable |-> writable] :
      cache \in Caches, from_currency \in {"USD", "EUR"}, to_currency \in {"INR", "JPY"},
      response \in Responses, writable \in BOOLEAN}

\* INDMoneyExtractor.extract on a statement with a holdings table of three rows
INDMoneyThreeRows ==
  << <<"AAPL", "Apple Inc", "10", "150.00", "1,500.00", "", "", "900.00">>,
     <<"MSFT", "Microsoft Corp", "5", "400.00", "2,000.00", "", "", "1,800.00">>,
     <<"GOOG", "Alphabet Inc", "2", "150.00", "300.00", "", "", "250.00">> >>

\* INDMoneyExtractor.extract on a statement with this period on its first
\* page and one holdings table, when the rate of the day is rate
INDMoneyExtractCalls ==
  {[op |-> "INDMoneyExtractor.extract", period |-> period, rows |-> rows, rate |-> rate] :
      period \in {"AUGUST - 2025", "Feb-2024", ""},
      rows \in INDMoneyTables \cup {INDMoneyThreeRows},
      rate \in ExchangeRates}

\* numbers as the statements write them, with their values in hundredths
WrittenNumbers ==
  {<<"1,234.50", 123450>>, <<"83", 8300>>, <<"0.01", 1>>, <<"1,00,000", 10000000>>,
   <<"-5", 0 - 500>>, <<".5", 50>>}

\* clean_currency_value on a number wrapped in currency symbols and whitespace,
\* on an empty cell or a placeholder, and on text that is no number
CleanCurrencyValueCalls ==
  {[op |-> "clean_currency_value", value_str |-> before \o written[1] \o after,
    kind |-> "number", number |-> written[2]] :
      written \in WrittenNumbers, before \in {"", "₹", "$", " ₹ "}, after \in {"", " ", "\n"}}
    \cup {[op |-> "clean_currency_value", value_str |-> text, kind |-> "empty", number |-> 0] :
             text \in {None, "", " ", "-", " - "}}
    \cup {[op |-> "clean_currency_value", value_str |-> text, kind |-> "unparseable",
            number |-> 0] :
             text \in {"abc", "12.5%", "(500)", "1.2.3", "N/A", "--", "₹-", "₹", "Rs.100",
                       "12abc", "5-", "None"}}

\* dates as the statements write them, with their YYYY-MM-DD forms
WrittenDates ==
  {<<"15/01/2023", "2023-01-15">>, <<"5 Jan 2023", "2023-01-05">>,
   <<"15 JANUARY 2023", "2023-01-15">>, <<"7  sept 2024", "2024-09-07">>,
   <<"2023-01-15", "2023-01-15">>}

\* parse_date on a date with text around it, and on text without a date of
\* the three forms
ParseDateCalls ==
  {[op |-> "parse_date", date_str |-> before \o written[1] \o after, kind |-> "date",
    date |-> written[2]] :
      written \in WrittenDates, before \in {"", "As on ", "Date: ", "Report - "},
      after \in {"", " (final)", " - Aug"}}
    \cup {[op |-> "parse_date", date_str |-> text, kind |-> "none", date |-> ""] :
             text \in {"Jan-23", "15.01.2023", "5/1/2023", "hello", "Aug 2025", "2023/01/15"}}

\* a page without text or tables
CoverPage == [text |-> "", tables |-> <<>>]

\* a page with a holdings table of three funds
HoldingsPage ==
  [text |-> "Category/ Scheme Name Invested Current\nDebt",
   tables |-> << << <<"Debt">>, <<"HDFC Index Fund">>, <<None, "5,000.00", "", "6,000.00">> >>,
                 << <<"Debt">>, <<"ICICI Bond Fund">>, <<None, "7,000.00", "", "7,500.00">> >>,
                 << <<"Equity">>, <<"SBI Equity Plan">>, <<None, "3,000.00", "", "4,500.00">> >> >>]

\* a page with the totals only
SummaryPage ==
  [text |-> "Portfolio Summary\nEquity 3,000.00\nDebt 12,000.00\nGrand Total 15,000.00 18,000.00",
   tables |-> << << <<"Summary">>, <<"Grand Total Fund">>,
                    <<None, "15,000.00", "", "18,000.00">> >> >>]

\* YesBankExtractor.extract on a report of these pages after its cover pages
YesBankExtractCalls ==
  {[op |-> "YesBankExtractor.extract", pages |-> [k \in 1..covers |-> CoverPage] \o pages] :
      covers \in {0, 2, 5},
      pages \in {<<HoldingsPage, SummaryPage>>, <<SummaryPage, HoldingsPage>>,
                 <<HoldingsPage>>, <<SummaryPage>>}}

\* dates as asset names embed them: day, 3-letter month, year, separated by
\* '-' or '/'
EmbeddedDates == {"15-Jan-2023", "5-Mar-2022", "20/Feb/24"}

\* a name for every fixed fund-family rule of create_asset_key (lines 1657-1679)
FamilyBases ==
  {"ASK Growth India Fund", "Altacura AI Absolute Return Fund", "White Oak India Equity Fund",
   "Accuracap Alpha", "White Space Alpha Fund", "Motilal Oswal Select Opportunities",
   "Motilal Oswal Founders Fund"}

\* names that match none of the fixed fund-family rules
GenericNames ==
  {"HDFC Flexi Cap Fund", "Nippon  India Growth Fund", "Avendus Trust (DEMAT)",
   "Kotak Investment Ltd", "XYZ Series I", "Neo  Income   Plus", "Edelweiss AIF",
   "Bharat Bond"}

\* create_asset_key on a name without a date, or on two names that differ
\* only in the date they embed
CreateAssetKeyCalls ==
  {[op |-> "create_asset_key", base |-> base, dates |-> <<one, other>>,
    asset_names |-> <<base \o " " \o one, base \o " " \o other>>] :
      base \in FamilyBases \cup {"HDFC Flexi-Cap Fund"}, one \in EmbeddedDates,
      other \in EmbeddedDates}
    \cup {[op |-> "create_asset_key", base |-> name, dates |-> <<>>, asset_names |-> <<name>>] :
            name \in GenericNames}

\* IIFL360OneExtractor._classify_asset_type on instrument names and category
\* texts that match none, one or several of its rules
IIFLClassifyCalls ==
  {[op |-> "IIFL360OneExtractor._classify_asset_type", instrument_name |-> name,
    text_context |-> context] :
      name \in {"Abakkus AIF Fund", "ABC Unlisted Shares", "Diversified Alpha Equity Portfolio",
                "Reliance Equity", "GOI Bond 2030", "Gold ETF"},
      context \in {"", "AIF", "Unlisted Equity", "Managed Accounts", "Equity", "Debt", "Cash"}}

Calls ==
  IIFLClassifyCalls \cup GetExchangeRateCalls \cup INDMoneyExtractCalls \cup CleanCurrencyValueCalls
    \cup ParseDateCalls \cup YesBankExtractCalls \cup CreateAssetKeyCalls

InitCalls ==
  /\ asset_keys = <<>>
  /\ pc = "call"
  /\ all_holdings = <<>>
  /\ clean_holdings = <<>>
  /\ removed_duplicates = <<>>
  /\ returned = <<>>
  /\ again = NoLocals
  /\ extractor = "none"
  /\ extract_pc = "returned"
  /\ holdings = <<>>
  /\ caught = "none"
  /\ documents = <<>>
  /\ main_pc = 0
  /\ invoked = {}
  /\ call \in Calls
  /\ result = NoResult
  /\ NoConverter

\* the call of op is to be made
Calling(op) == call.op = op /\ result = NoResult

CallGetExchangeRate ==
  /\ Calling("get_exchange_rate")
  /\ result' = get_exchange_rate(call.cache, call.from_currency, call.to_currency,
                                 call.response, call.writable)
  /\ UNCHANGED <<call, dedup_vars, extract_vars, main_vars, converter_vars>>

\* INDMoneyExtractor.extract, lines 170-309
CallINDMoneyExtract ==
  /\ Calling("INDMoneyExtractor.extract")
  /\ \E collected \in INDMoneyExtract(call.rows, {call.rate}, parse_date_from_period(call.period)) :
        result' = [outcome |-> "returns", holdings |-> collected]
  /\ UNCHANGED <<call, dedup_vars, extract_vars, main_vars, converter_vars>>

\* clean_currency_value, lines 33-45
CallCleanCurrencyValue ==
  /\ Calling("clean_currency_value")
  /\ result' = clean_currency_value_call(call.value_str)
  /\ UNCHANGED <<call, dedup_vars, extract_vars, main_vars, converter_vars>>

\* parse_date, lines 47-80
CallParseDate ==
  /\ Calling("parse_date")
  /\ result' = [outcome |-> "returns", value |-> parse_date(call.date_str)]
  /\ UNCHANGED <<call, dedup_vars, extract_vars, main_vars, converter_vars>>

\* YesBankExtractor.extract, lines 597-799
CallYesBankExtract ==
  /\ Calling("YesBankExtractor.extract")
  /\ result' = [outcome |-> "returns", holdings |-> YesBank_extract(call.pages)]
  /\ UNCHANGED <<call, dedup_vars, extract_vars, main_vars, converter_vars>>

\* create_asset_key, lines 1648-1704, on each of the names
CallCreateAssetKey ==
  /\ Calling("create_asset_key")
  /\ result' = [outcome |-> "returns",
                keys |-> [i \in DOMAIN call.asset_names |-> create_asset_key(call.asset_names[i])]]
  /\ UNCHANGED <<call, dedup_vars, extract_vars, main_vars, converter_vars>>

\* IIFL360OneExtractor._classify_asset_type, lines 845-861
CallIIFLClassify ==
  /\ Calling("IIFL360OneExtractor._classify_asset_type")
  /\ result' = [outcome |-> "returns",
                value |-> IIFL_classify_asset_type(call.instrument_name, call.text_context)]
  /\ UNCHANGED <<call, dedup_vars, extract_vars, main_vars, converter_vars>>

NextCalls ==
  \/ CallIIFLClassify
  \/ CallCreateAssetKey
  \/ CallGetExchangeRate
  \/ CallYesBankExtract
  \/ CallParseDate
  \/ CallCleanCurrencyValue
  \/ CallINDMoneyExtract

SpecCalls == InitCalls /\ [][NextCalls]_vars

(***************************************************************************)
(* Properties of the deduplication engine.                                 *)
(***************************************************************************)
Elems(seq) == {seq[i] : i \in DOMAIN seq}

Deduplicated == pc = "deduplicated"

\* the holdings the removed-duplicates log holds
LoggedHoldings == {e.duplicate_holding : e \in Elems(removed_duplicates)}

\* positions i, j of two input holdings with one key, of issuers of the priority
\* list, the issuer of i before the issuer of j in it
SameKeyPair(i, j) ==
  /\ asset_key_of(all_holdings[i]) = asset_key_of(all_holdings[j])
  /\ all_holdings[i].manager_name \in PriorityManagers
  /\ all_holdings[j].manager_name \in PriorityManagers
  /\ PriorityOf(all_holdings[i].manager_name) < PriorityOf(all_holdings[j].manager_name)

\* no other input holding with the key of holding i comes before it in the
\* processing order (a higher-priority issuer, or the same issuer earlier in the input)
FirstClaim(i) ==
  \A k \in DOMAIN all_holdings :
    (/\ k # i
     /\ asset_key_of(all_holdings[k]) = asset_key_of(all_holdings[i])
     /\ all_holdings[k].manager_name \in PriorityManagers)
    => \/ PriorityOf(all_holdings[k].manager_name) > PriorityOf(all_holdings[i].manager_name)
       \/ /\ all_holdings[k].manager_name = all_holdings[i].manager_name
          /\ k > i

\* the manager of the retained holding that has the key of holding h
RetainedManagers(h) ==
  {c.manager_name : c \in {x \in Elems(clean_holdings) : asset_key_of(x) = asset_key_of(h)}}

\* C1, as stated: of two input holdings with one key, of issuers A before B in the
\* priority list, A's record is in the clean list, B's is not, and B's is logged
\* as a duplicate of A, wherever the two are in the input.
C1_FirstClaimWins_AsStated ==
  Deduplicated =>
    \A i, j \in DOMAIN all_holdings :
      SameKeyPair(i, j) =>
        /\ all_holdings[i] \in Elems(returned[1])
        /\ all_holdings[j] \notin Elems(returned[1])
        /\ LogEntry(all_holdings[j], all_holdings[i].manager_name)
             \in Elems(removed_duplicates)

\* C1, amended: B's record is never in the clean list and is logged as a
\* duplicate of the manager whose record was retained for the key; and when no
\* other holding with the key comes before A's in the processing order, A's
\* record is the retained one and B's is logged as a duplicate of A.
C1_FirstClaimWins ==
  Deduplicated =>
    \A i, j \in DOMAIN all_holdings :
      SameKeyPair(i, j) =>
        /\ all_holdings[j] \notin Elems(returned[1])
        /\ \E e \in Elems(removed_duplicates) :
             /\ e.duplicate_holding = all_holdings[j]
             /\ RetainedManagers(all_holdings[j]) = {e.original_manager}
        /\ FirstClaim(i) =>
             /\ all_holdings[i] \in Elems(returned[1])
             /\ LogEntry(all_holdings[j], all_holdings[i].manager_name)
                  \in Elems(removed_duplicates)

\* C1 witness: B's record comes before A's in the input, A's is the first claim
\* of the key, and the engine has run
C1_Witness ==
  /\ Deduplicated
  /\ \E i, j \in DOMAIN all_holdings :
       /\ SameKeyPair(i, j)
       /\ j < i
       /\ FirstClaim(i)
       /\ all_holdings[i].asset_name # all_holdings[j].asset_name

\* C2, as stated: every input holding, whatever its manager_name, is in exactly
\* one of the clean list and the removed-duplicates log, so the two lengths add
\* up to the length of the input.
C2_NoHoldingLost ==
  Deduplicated =>
    /\ \A i \in DOMAIN all_holdings :
         (all_holdings[i] \in Elems(clean_holdings))
           # (all_holdings[i] \in LoggedHoldings)
    /\ Len(clean_holdings) + Len(removed_duplicates) = Len(all_holdings)

\* the canonical keys of the holdings of a list
KeysOf(seq) == {asset_key_of(seq[i]) : i \in DOMAIN seq}

\* C3, as stated: the clean list holds exactly one holding for every key of the
\* input: no key twice, no key of the input missing.
C3_OneSurvivorPerKey ==
  Deduplicated =>
    /\ \A i, j \in DOMAIN returned[1] :
         asset_key_of(returned[1][i]) = asset_key_of(returned[1][j]) => i = j
    /\ KeysOf(returned[1]) = KeysOf(all_holdings)

\* C4: remove_duplicates applied to the clean list it returned gives that list
\* again, same holdings in the same order, and removes nothing.
C4_Idempotent ==
  pc = "again" =>
    /\ again.clean_holdings = returned[1]
    /\ again.removed_duplicates = <<>>

\* C4 witness: the second call has run on a clean list of two or more holdings
\* that the first call had removed a duplicate from
C4_Witness ==
  /\ pc = "again"
  /\ Len(returned[1]) >= 2
  /\ removed_duplicates # <<>>

\* every log entry names the manager of the retained holding with the key of
\* the holding it dropped, and that holding was processed before the dropped one
LogNamesFirstClaimant ==
  \A e \in Elems(removed_duplicates) :
    /\ e.duplicate_holding \in Elems(all_holdings)
    /\ e.duplicate_holding \notin Elems(clean_holdings)
    /\ e.original_manager # "Unknown"
    /\ RetainedManagers(e.duplicate_holding) = {e.original_manager}
    /\ PriorityOf(e.original_manager) <= PriorityOf(e.duplicate_holding.manager_name)

C6_OnlyFilters ==
  /\ [](Deduplicated =>
          \A h \in Elems(returned[1]) \cup LoggedHoldings :
            /\ h.raw_data.row_index \in DOMAIN all_holdings
            /\ h = all_holdings[h.raw_data.row_index])
  /\ [][all_holdings' = all_holdings]_vars

\* C6 witness: the engine has run and both the clean list and the log are not empty
C6_Witness ==
  /\ Deduplicated
  /\ returned[1] # <<>>
  /\ removed_duplicates # <<>>
  /\ \E e \in Elems(removed_duplicates) : e.duplicate_holding.pl_amount # 0

\* the input is the two holdings of C7's scenario, from two different issuers
C7_Scenario ==
  /\ Len(all_holdings) = 2
  /\ {all_holdings[1].asset_name, all_holdings[2].asset_name}
       = {"ABC Growth Fund - Series I", "ABC GROWTH FUND SR I"}
  /\ all_holdings[1].manager_name # all_holdings[2].manager_name

\* C7, as stated: "ABC Growth Fund - Series I" and "ABC GROWTH FUND SR I" have one
\* canonical key, and of two holdings with these names from two issuers
\* remove_duplicates keeps exactly one.
C7_SameTrancheOneKey ==
  (Deduplicated /\ C7_Scenario) =>
    /\ asset_key_of(all_holdings[1]) = asset_key_of(all_holdings[2])
    /\ Len(returned[1]) = 1

\* the input is one fund name with "Series I" and with "Series II", from two issuers
C8_Scenario ==
  /\ Len(all_holdings) = 2
  /\ \E b \in FundBases :
       /\ all_holdings[1].asset_name = b \o " Series I"
       /\ all_holdings[2].asset_name = b \o " Series II"
  /\ all_holdings[1].manager_name # all_holdings[2].manager_name

\* C8, as stated: for every fund name, also one of a multi-tranche family, the key
\* of the name with "Series I" differs from the key of the name with "Series II",
\* and remove_duplicates keeps both holdings.
C8_TranchesStayDistinct ==
  (Deduplicated /\ C8_Scenario) =>
    /\ asset_key_of(all_holdings[1]) # asset_key_of(all_holdings[2])
    /\ Len(returned[1]) = 2


(***************************************************************************)
(* Properties of the records the extractors emit.                          *)
(***************************************************************************)
\* C9: every Holding Record an extractor has emitted, on every emission path
\* of every issuer (the Client Associates table path included), has pl_amount
\* equal to current_market_value minus current_investment_value exactly: it
\* is recomputed, never taken from a P&L column of the source.
C9_PlRecomputed ==
  \A i \in DOMAIN holdings :
     holdings[i].pl_amount =
       holdings[i].current_market_value - holdings[i].current_investment_value

\* the materiality threshold of an issuer's emitted record: 100 in source
\* currency for the foreign-currency issuer, 1,000 in home currency otherwise
AboveThreshold(holding) ==
  IF holding.manager_name = "IND Money"
    THEN holding.raw_data.market_value_usd > Amount(100)
    ELSE holding.current_market_value > Amount(1000)

\* C10: no extractor ever emits a candidate whose current_market_value is less
\* than or equal to its issuer's materiality threshold; a candidate whose value
\* is exactly at the threshold is not emitted either.
C10_MaterialityFilter ==
  \A i \in DOMAIN holdings : AboveThreshold(holdings[i])

\* C11: no extractor emits a record whose current_market_value is <= 0 or
\* whose asset_name is empty, on any emission path (the Yes Bank path that
\* builds the fund name from the text before the first embedded number
\* included).
C11_NamedAndValued ==
  \A i \in DOMAIN holdings :
     holdings[i].current_market_value > 0 /\ holdings[i].asset_name # ""

\* C12: every Holding Record an extractor has emitted has
\* current_investment_value >= 0 and current_market_value >= 0, whatever the
\* cells of the source table hold (cells that parse to a negative number
\* included).
C12_NonNegativeValues ==
  \A i \in DOMAIN holdings :
     holdings[i].current_investment_value >= 0 /\ holdings[i].current_market_value >= 0

(***************************************************************************)
(* Properties of the error handling of extract and of the driver.          *)
(***************************************************************************)
\* C13: extract of an issuer's extractor never raises: whatever the document,
\* it ends by returning a list of holdings, and when opening the document
\* fails (missing, corrupt, wrong password) the list it returns is empty.
C13_ExtractNeverRaises ==
  /\ extract_pc \in {"opening", "scanning", "returned"}
  /\ (caught = "open" => (extract_pc = "returned" /\ holdings = <<>>))

\* an extract whose document could not be opened has returned
C13_OpenFailureReturned ==
  /\ extractor \in Extractors
  /\ caught = "open"
  /\ extract_pc = "returned"

\* C14: a parsing failure on one page or row costs the holdings of that page
\* or row only: the step in which extract catches the failure leaves the
\* holdings collected so far as they are, and they are still returned.
C14_FailureKeepsCollected ==
  [][(caught' # caught /\ caught' \in {"page", "row"}) => (holdings' = holdings)]_vars

\* the documents of a run without those extract fails on
WithoutFailing(docs) ==
  [issuer \in Extractors |->
     IF docs[issuer] \in {"unreadable", "badpage"} THEN "absent" ELSE docs[issuer]]

RECURSIVE MainRuns(_, _)
\* the values all_holdings can have when main is done with the first n
\* issuers of a folder with these documents
MainRuns(docs, n) ==
  IF n = 0 THEN {<<>>}
  ELSE LET Step(before, issuer) ==
             IF docs[issuer] = "absent" THEN before
             ELSE {b \o extracted.holdings :
                     b \in before, extracted \in ExtractResults(issuer, docs[issuer])}
       IN Step(MainRuns(docs, n - 1), IssuerOrder[n])

\* C15: issuer isolation in a run of main: whatever fails in the extract of
\* one issuer, main goes on, calls the extract of every issuer whose document
\* is in the folder, and all_holdings is what it is in a run on the folder
\* without the documents that failed.
C15_IssuerIsolation ==
  pc \in {"main", "aborted"} =>
    /\ pc = "main"
    /\ invoked = {IssuerOrder[k] : k \in 1..main_pc} \ {i \in Extractors : documents[i] = "absent"}
    /\ all_holdings \in MainRuns(WithoutFailing(documents), main_pc)

\* main is done with all issuers; the document of one could not be opened, a
\* page of another failed, and holdings of a third are in all_holdings
C15_Witness ==
  /\ pc = "main"
  /\ main_pc = Len(IssuerOrder)
  /\ documents["Yes Bank"] = "unreadable"
  /\ documents["Client Associates"] = "badpage"
  /\ documents["Kotak"] = "readable"
  /\ \E i \in DOMAIN all_holdings : all_holdings[i].manager_name = "Kotak"

(***************************************************************************)
(* Properties of single functions and methods.                             *)
(***************************************************************************)
\* the call of get_exchange_rate has no valid cache entry to return and its
\* remote lookup fails
LookupFailed ==
  /\ call.op = "get_exchange_rate"
  /\ ~is_cache_valid(call.cache, call.from_currency \o "_" \o call.to_currency).valid
  /\ ~(call.response.kind = "rates" /\ call.to_currency \in call.response.keys
         /\ call.response.rate # 0)

\* C16: get_exchange_rate never raises and never returns a missing value,
\* whatever the cache holds, and when the remote lookup fails it returns the
\* fallback constant of the requested currency pair.
C16_RateLookupTotal ==
  (call.op = "get_exchange_rate" /\ result # NoResult) =>
     /\ result.outcome = "returns"
     /\ LookupFailed =>
          LET Fixed(cache_key) ==
                cache_key \in DOMAIN fallback_rates /\ result.rate = fallback_rates[cache_key]
          IN Fixed(call.from_currency \o "_" \o call.to_currency)

\* C17: extract on an IND Money statement of the period "AUGUST - 2025", at
\* the rate 83.0, with a holdings row of market value 1,000 USD gives a
\* record whose current_market_value is 83,000.
C17_ConvertedAtRate ==
  (/\ call.op = "INDMoneyExtractor.extract"
   /\ call.period = "AUGUST - 2025"
   /\ call.rate = 8300
   /\ Cell(call.rows[1], 4) = "1,000.00"
   /\ result # NoResult) =>
     \E i \in DOMAIN result.holdings :
        result.holdings[i].current_market_value = Amount(83000)

C19_ParseDate ==
  (call.op = "parse_date" /\ result # NoResult) =>
     /\ call.kind = "date" => result.value = call.date
     /\ call.kind = "none" => result.value = call.date_str

\* the call is extract on a document of two pages, one with a holdings table
\* of three well-formed entries and one with the totals only
TwoPageScenario ==
  \/ /\ call.op = "YesBankExtractor.extract"
     /\ call.pages \in {<<HoldingsPage, SummaryPage>>, <<SummaryPage, HoldingsPage>>}
  \/ /\ call.op = "INDMoneyExtractor.extract"
     /\ call.rows = INDMoneyThreeRows

\* C20: extract on a two-page document, one page with a holdings table of 3
\* well-formed rows and one pure "Grand Total" summary page, gives exactly 3
\* records, all with a positive market value, none from the summary page.
C20_TwoPageDocument ==
  (TwoPageScenario /\ result # NoResult) =>
     /\ Len(result.holdings) = 3
     /\ \A i \in DOMAIN result.holdings :
           /\ result.holdings[i].current_market_value > 0
           /\ ~Contains(result.holdings[i].asset_name, "Grand Total")

(***************************************************************************)
(* CurrencyConverter objects of one or two runs of the program on one      *)
(* cache file (src/utils/currency_converter.py).  A step is a whole method  *)
(* call: the constructor with its load_cache, or get_exchange_rate with    *)
(* its save_cache.                                                          *)
(***************************************************************************)
MaxCalls == 2

MaxClock == 36

TickHours == 12

\* currency_converter.py, lines 20-28: the file's cache if it is there and
\* is JSON, the empty cache otherwise
load_cache(file) == IF file.state = "json" THEN file.content ELSE EmptyCache

\* currency_converter.py, lines 30-33: the file is opened for writing and
\* the whole of self.cache dumped to it
save_cache(cache) == [state |-> "json", content |-> cache]

\* self.cache = {cache_key: entry} is
StoreRate_replace(cache, cache_key, entry) ==
  [pair \in Pairs |-> IF pair = cache_key THEN entry ELSE NoEntry]

\* currency_converter.py, lines 62-66: self.cache[cache_key] = entry
StoreRate(cache, cache_key, entry) == [cache EXCEPT ![cache_key] = entry]

\* the cache as get_exchange_rate(.., cache_key's currencies) reads it: the
\* key's entry, with the age of its timestamp at the time of the call
CacheView(cache, cache_key) ==
  IF cache[cache_key] = NoEntry THEN [keys |-> {}, entry |-> [rate |-> 0]]
  ELSE [keys |-> {cache_key},
        entry |-> FetchedEntry(cache[cache_key].rate, now - cache[cache_key].at)]

\* the files a run can find: none, one cut short while an earlier run wrote
\* it, or the cache of an earlier run that fetched USD_INR at hour 0
InitialFiles ==
  {NoFile,
   [state |-> "corrupt", content |-> EmptyCache],
   save_cache(StoreRate(EmptyCache, "USD_INR", [rate |-> 8300, at |-> 0]))}

\* the lookups behind the entries of a file, made by a run before these
LookupsBehind(file) ==
  {[key |-> pair, rate |-> load_cache(file)[pair].rate, saved |-> TRUE, by |-> "earlier"] :
     pair \in {key \in Pairs : load_cache(file)[key] # NoEntry}}

InitConverter ==
  /\ asset_keys = <<>>
  /\ pc = "converter"
  /\ all_holdings = <<>>
  /\ clean_holdings = <<>>
  /\ removed_duplicates = <<>>
  /\ returned = <<>>
  /\ again = NoLocals
  /\ extractor = "none"
  /\ extract_pc = "returned"
  /\ holdings = <<>>
  /\ caught = "none"
  /\ documents = <<>>
  /\ main_pc = 0
  /\ invoked = {}
  /\ call = NoCall
  /\ result = NoResult
  /\ cache_file \in InitialFiles
  /\ \E second \in {"off", "new"} :
        converters = [run \in Runs |->
                        [pc |-> IF run = "first" THEN "new" ELSE second, cache |-> EmptyCache]]
  /\ now = 0
  /\ last_call = NoLastCall
  /\ lookups = LookupsBehind(cache_file)

\* currency_converter.py, lines 15-18: CurrencyConverter()
Construct(run) ==
  /\ converters[run].pc = "new"
  /\ converters' = [converters EXCEPT ![run] = [pc |-> "ready", cache |-> load_cache(cache_file)]]
  /\ UNCHANGED <<cache_file, now, last_call, lookups, dedup_vars, extract_vars, main_vars, call_vars>>

\* currency_converter.py, lines 43-84: get_exchange_rate(from_currency, 'INR')
\* of the converter of run, with any response and a cache file that can be
\* opened for writing or not
GetExchangeRate(run) ==
  /\ converters[run].pc = "ready"
  /\ last_call.n < MaxCalls
  /\ \E from_currency \in {"USD", "EUR"}, response \in Responses, writable \in BOOLEAN :
       LET Ended(cache, cache_key, view, ended) ==
             LET Left(after) ==
                   /\ converters' = [converters EXCEPT ![run].cache = after]
                   /\ cache_file' = IF ended.saved THEN save_cache(after) ELSE cache_file
                   /\ last_call' = [n |-> last_call.n + 1, by |-> run, key |-> cache_key,
                                    before |-> cache[cache_key],
                                    after |-> after[cache_key],
                                    at |-> now,
                                    fetched |-> ended.fetched,
                                    looked_up |-> ended.looked_up,
                                    saved |-> ended.saved,
                                    outcome |-> ended.outcome,
                                    rate |-> ended.rate]
                   /\ lookups' = IF ended.fetched = 0 THEN lookups
                                 ELSE lookups \cup {[key |-> cache_key, rate |-> ended.fetched,
                                                     saved |-> ended.saved, by |-> run]}
             IN Left(IF ended.cache = view THEN cache
                     ELSE StoreRate(cache, cache_key, [rate |-> ended.cache.entry.rate, at |-> now]))
           Viewed(cache, cache_key, view) ==
             Ended(cache, cache_key, view,
                   get_exchange_rate(view, from_currency, "INR", response, writable))
           Keyed(cache, cache_key) == Viewed(cache, cache_key, CacheView(cache, cache_key))
       IN Keyed(converters[run].cache, from_currency \o "_INR")
  /\ UNCHANGED <<now, dedup_vars, extract_vars, main_vars, call_vars>>

\* time passes
Tick ==
  /\ pc = "converter"
  /\ now < MaxClock
  /\ now' = now + TickHours
  /\ UNCHANGED <<cache_file, converters, last_call, lookups, dedup_vars, extract_vars, main_vars, call_vars>>

NextConverter ==
  \/ \E run \in Runs : Construct(run)
  \/ \E run \in Runs : GetExchangeRate(run)
  \/ Tick

SpecConverter == InitConverter /\ [][NextConverter]_vars

\* the program runs once
SingleRun == converters["second"].pc = "off"

\* the file holds an entry for every pair a rate was saved for
NoSavedRateLost ==
  \A lookup \in lookups : lookup.saved => load_cache(cache_file)[lookup.key] # NoEntry

\* C21: with a single run, every pair a fetched rate was stored and saved for
\* keeps an entry in the cache file; two runs that share the file can lose
\* one (C21_LostUpdate)
C21_SingleRunKeepsRates == SingleRun => NoSavedRateLost

\* two runs each fetched and saved the rate of another pair, and the file
\* holds only one of the two
C21_LostUpdate ==
  /\ \E one \in lookups, other \in lookups :
        /\ one.by = "first" /\ other.by = "second"
        /\ one.saved /\ other.saved
        /\ one.key # other.key
        /\ load_cache(cache_file)[one.key] = NoEntry
        /\ load_cache(cache_file)[other.key] # NoEntry
  /\ \A lookup \in lookups : lookup.by # "earlier"

(***************************************************************************)
(* The order of the clean list.                                            *)
(***************************************************************************)
\* the position in the input of a holding of the clean list
InputIndex(holding) == holding.raw_data.row_index

\* in the clean list a holding of an issuer earlier in manager_priority comes
\* before one of a later issuer, and two holdings of one issuer are in input order
InProcessingOrder(clean) ==
  \A i, j \in DOMAIN clean :
    i < j =>
      \/ PriorityOf(clean[i].manager_name) < PriorityOf(clean[j].manager_name)
      \/ /\ clean[i].manager_name = clean[j].manager_name
         /\ InputIndex(clean[i]) < InputIndex(clean[j])

\* positions i before j in the input of two holdings of one issuer of the
\* priority list with one key
SameIssuerPair(i, j) ==
  /\ i < j
  /\ all_holdings[i].manager_name = all_holdings[j].manager_name
  /\ all_holdings[i].manager_name \in PriorityManagers
  /\ asset_key_of(all_holdings[i]) = asset_key_of(all_holdings[j])

KeyedNames(count) ==
  /\ call.op = "create_asset_key"
  /\ result # NoResult
  /\ Len(call.asset_names) = count

\* str.endswith
str_endswith(s, suffix) ==
  Len(suffix) <= Len(s) /\ SubSeq(s, Len(s) - Len(suffix) + 1, Len(s)) = suffix

\* C23, as stated: the key of a name that embeds a date and matches a fixed
\* fund-family rule ends with that date, and two names that differ only in
\* the embedded date get different keys.
C23_DateSuffixRetained ==
  KeyedNames(2) =>
    /\ call.base \in FamilyBases =>
         \A i \in 1..2 : str_endswith(result.keys[i], "_" \o str_upper(call.dates[i]))
    /\ call.dates[1] # call.dates[2] => result.keys[1] # result.keys[2]

\* the boilerplate tokens of the generic normalisation (lines 1682-1697), as
\* they stand as words between spaces
BoilerplateWords ==
  {"(DEMAT)", "GROWTH", "LTD", "LIMITED", "LLP", "FUND", "AIF", "EQUITY", "VI", "TRUST",
   "INVESTMENT", "ALTERNATIVE", "SERIES", "SR", "I", "IV"}

\* the uppercased name without its boilerplate words, the words that are left
\* joined by single spaces
WithoutBoilerplate(asset_name) ==
  str_join(SelectSeq(str_split(str_upper(asset_name)), LAMBDA word : word \notin BoilerplateWords),
           " ")

\* C24, as stated: for a name that matches none of the fixed fund-family
\* rules, the key is the uppercased name with every boilerplate token removed
\* as a whole word and runs of whitespace collapsed to a single space.
C24_BoilerplateStripped ==
  KeyedNames(1) => result.keys[1] = WithoutBoilerplate(call.asset_names[1])

(***************************************************************************)
(* Properties of the rate cache.                                           *)
(***************************************************************************)
\* get_exchange_rate has been called
Called == last_call.n > 0

\* the entry the last call found for its pair was less than CacheHours old
FoundFresh ==
  /\ last_call.before # NoEntry
  /\ last_call.at - last_call.before.at < CacheHours

\* C25: a call returns the cached rate without a remote lookup exactly when
\* the entry of its pair is less than 24 hours old; with no entry, or one of
\* 24 hours or more, the call makes the remote lookup.
C25_CacheTimeBoxed ==
  Called =>
    /\ FoundFresh <=> ~last_call.looked_up
    /\ FoundFresh => last_call.outcome = "returns" /\ last_call.rate = last_call.before.rate

\* C25 witness: a call found an entry of exactly 24 hours, made the remote
\* lookup, and did not return the stale rate
C25_Witness ==
  /\ Called
  /\ last_call.before # NoEntry
  /\ last_call.at - last_call.before.at = CacheHours
  /\ last_call.looked_up
  /\ last_call.rate # last_call.before.rate

\* C26, as stated: in a single run, after any calls of get_exchange_rate the
\* content of the cache file equals the converter's in-memory cache (a file
\* that is missing or unreadable counts as the empty cache).
C26_CachePersisted ==
  (SingleRun /\ Called) => load_cache(cache_file) = converters["first"].cache

\* get_exchange_rate was called and has ended
RateCallEnded == call.op = "get_exchange_rate" /\ result # NoResult

\* C29, as stated: when the remote lookup gives a non-zero rate for the pair,
\* the call returns that rate, whether or not the cache file can be written;
\* and when the call stores a rate in the in-memory cache, that is the rate
\* it returns.
C29_ReturnsFetchedRate ==
  RateCallEnded =>
    /\ result.fetched # 0 => result.outcome = "returns" /\ result.rate = result.fetched
    /\ result.cache # call.cache =>
         result.outcome = "returns" /\ result.rate = result.cache.entry.rate

\* the runs found no cache of an earlier run
StartedEmpty == \A lookup \in lookups : lookup.by # "earlier"

\* every entry of the caches in memory and of the cache file holds a rate
\* that a remote lookup for its pair gave
OnlyFetchedRatesCached ==
  \A cache \in {converters[run].cache : run \in Runs} \cup {load_cache(cache_file)} :
    \A pair \in Pairs :
      cache[pair] # NoEntry =>
        \E lookup \in lookups : lookup.key = pair /\ lookup.rate = cache[pair].rate

\* the last call made a remote lookup that gave no rate
LookupGaveNoRate == Called /\ last_call.looked_up /\ last_call.fetched = 0

\* the same converter is called again for the same pair
CalledAgain ==
  /\ last_call'.n = last_call.n + 1
  /\ last_call'.by = last_call.by
  /\ last_call'.key = last_call.key

\* C30: starting from an empty cache, every cache entry holds a rate a
\* successful remote lookup gave, never a fallback constant; and the call that
\* follows a failed lookup of the same converter for the same pair makes the
\* remote lookup again.
C30_FallbackNeverCached ==
  /\ [](StartedEmpty => OnlyFetchedRatesCached)
  /\ [][(LookupGaveNoRate /\ CalledAgain) => last_call'.looked_up]_vars

\* C30 witness: starting from an empty cache, a lookup failed, the call
\* returned the fallback constant, and the cache holds the fetched rate of the
\* other pair only
C30_Witness ==
  /\ StartedEmpty
  /\ LookupGaveNoRate
  /\ last_call.key \in DOMAIN fallback_rates
  /\ last_call.rate = fallback_rates[last_call.key]
  /\ converters[last_call.by].cache[last_call.key] = NoEntry
  /\ \E pair \in Pairs : converters[last_call.by].cache[pair] # NoEntry

(***************************************************************************)
(* Properties of the Kotak and IIFL 360 One classifications.               *)
(***************************************************************************)
\* the records of the running Kotak extract that it classified as bonds
KotakBonds ==
  {holding \in Elems(holdings) : holding.manager_name = "Kotak" /\ holding.asset_type = "Bonds"}

\* C27: every record the Kotak extractor classifies as Bonds has its market
\* value equal to its invested value and a P&L amount and percentage of zero,
\* whatever market value its row reports.
C27_BondsAtInvestedValue ==
  \A holding \in KotakBonds :
    /\ holding.current_market_value = holding.current_investment_value
    /\ holding.pl_amount = 0
    /\ holding.pl_percentage = 0

\* C27 witness: a bond whose row reports a cost of 50,000 and a market value
\* of 60,000 is recorded at 50,000
C27_Witness ==
  \E holding \in KotakBonds :
    /\ holding.raw_data.raw_row[4] = "50,000"
    /\ holding.raw_data.raw_row[6] = "60,000"
    /\ holding.current_market_value = Amount(50000)

\* the rules of the claim in their order: the text looked for in the
\* instrument name, the text looked for in the category text ("" for none),
\* and the asset type
IIFLRules ==
  << [instrument |-> "AIF", context |-> "AIF", asset_type |-> "AIF"],
     [instrument |-> "UNLISTED", context |-> "UNLISTED", asset_type |-> "Unlisted Equity"],
     [instrument |-> "DIVERSIFIED ALPHA", context |-> "MANAGED ACCOUNTS", asset_type |-> "AIF"],
     [instrument |-> "EQUITY", context |-> "EQUITY", asset_type |-> "Direct Equity"],
     [instrument |-> "BOND", context |-> "DEBT", asset_type |-> "Debt/Bonds"] >>

\* the rules that match the arguments of the call
IIFLMatching ==
  {i \in DOMAIN IIFLRules :
     \/ Contains(str_upper(call.instrument_name), IIFLRules[i].instrument)
     \/ Contains(str_upper(call.text_context), IIFLRules[i].context)}

\* the IIFL classifier was called and has returned
IIFLClassified == call.op = "IIFL360OneExtractor._classify_asset_type" /\ result # NoResult

\* C28: the IIFL classifier gives the asset type of the first rule that
\* matches, in the order AIF, Unlisted Equity, managed accounts as AIF, Direct
\* Equity, Debt/Bonds, and it gives Other exactly when no rule matches.
C28_FirstRuleWins ==
  IIFLClassified =>
    /\ \A i \in IIFLMatching :
         (\A k \in IIFLMatching : i <= k) => result.value = IIFLRules[i].asset_type
    /\ result.value = "Other" <=> IIFLMatching = {}

\* C28 witness: the rules for unlisted equity, managed accounts and direct
\* equity all match, and the classifier gives Unlisted Equity
C28_Witness ==
  /\ IIFLClassified
  /\ IIFLMatching = {2, 3, 4}
  /\ result.value = "Unlisted Equity"

====
